---- MODULE Spec2Model ----
(***************************************************************************)
(* A model of the Ethereum JSON-RPC tool server of src/src/index.ts.       *)
(*                                                                         *)
(* Every tool is one handler: the host framework validates the caller's    *)
(* arguments against the tool's schema, the handler sends one JSON-RPC     *)
(* request through makeEthRpcRequest, and renders the reply as text.       *)
(* Texts are TLA+ strings, built the way the template literals build them. *)
(* JSON values are tagged records, so that a missing member, null, a       *)
(* string and a boolean stay distinct, as they are in JavaScript.          *)
(* The emoji the source prints are written (ok), (x), (warn), (sync) and   *)
(* (mine).                                                                 *)
(***************************************************************************)
EXTENDS Integers, Sequences, FiniteSets, TLC

VARIABLES
    live,       \* the invocation slots the host may use (fixed by Init)
    pc,         \* per slot: "idle", "handler", "awaiting", "resumed", "done"
    tool,       \* per slot: name of the invoked tool
    args,       \* per slot: the arguments, as parsed by the schema
    sent,       \* per slot: the HTTP requests issued by this invocation
    reply,      \* per slot: what the network did with the request
    rpcResult,  \* per slot: the value makeEthRpcRequest resolved to
    result      \* per slot: what the invocation produced

vars == <<live, pc, tool, args, sent, reply, rpcResult, result>>

Invocations == {"i1", "i2"}

-----------------------------------------------------------------------------
(* JSON values *)

Undef == [t |-> "undef"]
JNull == [t |-> "null"]
Str(s) == [t |-> "str", v |-> s]
Bool(b) == [t |-> "bool", v |-> b]
Num(n) == [t |-> "num", v |-> n]
\* the number n + 1/2, for the numbers that are not integers
NumAndHalf(n) == [t |-> "num", v |-> n, half |-> TRUE]
\* Number.isInteger(j) for a number j
IsInteger(j) == "half" \notin DOMAIN j
Arr(a) == [t |-> "arr", v |-> a]
Obj(o) == [t |-> "obj", v |-> o]

\* o.f for a JSON object o: undefined when the member is absent
Get(o, f) == IF o.t = "obj" /\ f \in DOMAIN o.v THEN o.v[f] ELSE Undef

\* JavaScript truthiness, as used by !x, x || y and x ? a : b
Truthy(j) ==
    CASE j.t = "undef" -> FALSE
      [] j.t = "null" -> FALSE
      [] j.t = "str" -> j.v # ""
      [] j.t = "bool" -> j.v
      [] j.t = "num" -> j.v # 0 \/ ~IsInteger(j)
      [] OTHER -> TRUE

\* x || y
OrElse(x, y) == IF Truthy(x) THEN x ELSE y

-----------------------------------------------------------------------------
(* Strings *)

StartsWith(s, p) == Len(s) >= Len(p) /\ SubSeq(s, 1, Len(p)) = p

Contains(s, p) ==
    \E i \in 1..(Len(s) - Len(p) + 1) : SubSeq(s, i, i + Len(p) - 1) = p

CharAt(s, i) == SubSeq(s, i, i)

\* s.slice(n) and s.slice(a, b) for 0 <= a <= b, zero-based, end exclusive
SliceFrom(s, n) == IF n >= Len(s) THEN "" ELSE SubSeq(s, n + 1, Len(s))
Slice(s, a, b) ==
    LET e == IF b > Len(s) THEN Len(s) ELSE b
    IN  IF a >= e THEN "" ELSE SubSeq(s, a + 1, e)

HexDigits ==
    {"0", "1", "2", "3", "4", "5", "6", "7", "8", "9",
     "a", "b", "c", "d", "e", "f", "A", "B", "C", "D", "E", "F"}

\* [0-9a-fA-F]* over the whole string
AllHex(s) == \A i \in 1..Len(s) : CharAt(s, i) \in HexDigits

\* 0* over the whole string
AllZero(s) == \A i \in 1..Len(s) : CharAt(s, i) = "0"

HexVal(c) ==
    CASE c = "0" -> 0 [] c = "1" -> 1 [] c = "2" -> 2 [] c = "3" -> 3
      [] c = "4" -> 4 [] c = "5" -> 5 [] c = "6" -> 6 [] c = "7" -> 7
      [] c = "8" -> 8 [] c = "9" -> 9
      [] c \in {"a", "A"} -> 10 [] c \in {"b", "B"} -> 11
      [] c \in {"c", "C"} -> 12 [] c \in {"d", "D"} -> 13
      [] c \in {"e", "E"} -> 14 [] c \in {"f", "F"} -> 15

DigitChar(d) == SubSeq("0123456789", d + 1, d + 1)

-----------------------------------------------------------------------------
(* Big integers: little-endian sequences of decimal digits, so that a      *)
(* 256-bit word keeps every digit.                                         *)

\* F of the value of v: v is evaluated once, and before F is
Apply(v, F(_)) == CHOOSE y \in {F(x) : x \in {v}} : TRUE

RECURSIVE SmallDigits(_)
\* the digits of the small number n, least significant first
SmallDigits(n) == IF n = 0 THEN <<>> ELSE <<n % 10>> \o SmallDigits(n \div 10)

RECURSIVE MulAddDigits(_, _, _)
\* ds * m + a: as many digits as ds has, and the carry out of the last; the
\* halves are done apart to keep the recursion shallow
MulAddDigits(ds, m, a) ==
    Apply(<<ds, a>>, LAMBDA v :
        IF v[1] = <<>> THEN [d |-> <<>>, c |-> v[2]]
        ELSE IF Len(v[1]) = 1
        THEN [d |-> <<(v[1][1] * m + v[2]) % 10>>,
              c |-> (v[1][1] * m + v[2]) \div 10]
        ELSE Apply(MulAddDigits(SubSeq(v[1], 1, Len(v[1]) \div 2), m, v[2]),
                   LAMBDA lo :
             Apply(MulAddDigits(SubSeq(v[1], Len(v[1]) \div 2 + 1, Len(v[1])),
                                m, lo.c),
                   LAMBDA hi : [d |-> lo.d \o hi.d, c |-> hi.c])))

\* ds * m + a
MulAdd(ds, m, a) ==
    Apply(MulAddDigits(ds, m, a), LAMBDA r : r.d \o SmallDigits(r.c))

RECURSIVE DivRemFrom(_, _, _)
\* the digits ds, with r carried in from above, divided by the small number d
DivRemFrom(ds, d, r) ==
    Apply(<<ds, r>>, LAMBDA v :
        IF v[1] = <<>> THEN [q |-> <<>>, r |-> v[2]]
        ELSE IF Len(v[1]) = 1
        THEN [q |-> <<(v[2] * 10 + v[1][1]) \div d>>,
              r |-> (v[2] * 10 + v[1][1]) % d]
        ELSE Apply(DivRemFrom(SubSeq(v[1], Len(v[1]) \div 2 + 1, Len(v[1])),
                              d, v[2]),
                   LAMBDA hi :
             Apply(DivRemFrom(SubSeq(v[1], 1, Len(v[1]) \div 2), d, hi.r),
                   LAMBDA lo : [q |-> lo.q \o hi.q, r |-> lo.r])))

\* ds divided by the small number d: quotient digits and remainder
DivRem(ds, d) == DivRemFrom(ds, d, 0)

\* ds + 1
AddOne(ds) ==
    LET below9 == {i \in 1..Len(ds) : ds[i] # 9}
    IN  IF below9 = {}
        THEN [i \in 1..(Len(ds) + 1) |-> IF i = Len(ds) + 1 THEN 1 ELSE 0]
        ELSE LET k == CHOOSE i \in below9 : \A j \in below9 : i <= j
             IN  [i \in 1..Len(ds) |->
                    IF i < k THEN 0 ELSE IF i = k THEN ds[i] + 1 ELSE ds[i]]

RECURSIVE MulAddCarry(_, _, _)
\* ls * m + a over little-endian limbs of four decimal digits each: as many
\* limbs as ls has, and the carry out of the last; the halves are done apart
\* to keep the recursion shallow
MulAddCarry(ls, m, a) ==
    IF ls = <<>> THEN [d |-> <<>>, c |-> a]
    ELSE IF Len(ls) = 1
    THEN [d |-> <<(ls[1] * m + a) % 10000>>, c |-> (ls[1] * m + a) \div 10000]
    ELSE LET h == Len(ls) \div 2
             lo == MulAddCarry(SubSeq(ls, 1, h), m, a)
             hi == MulAddCarry(SubSeq(ls, h + 1, Len(ls)), m, lo.c)
         IN  [d |-> lo.d \o hi.d, c |-> hi.c]

\* ls * m + a, for m up to 16^4
MulAddLimbs(ls, m, a) ==
    LET r == MulAddCarry(ls, m, a)
    IN  r.d \o (IF r.c = 0 THEN <<>>
                ELSE IF r.c < 10000 THEN <<r.c>>
                ELSE <<r.c % 10000, r.c \div 10000>>)

Pow16(k) == CASE k = 1 -> 16 [] k = 2 -> 256 [] k = 3 -> 4096 [] k = 4 -> 65536
Pow10(k) == CASE k = 0 -> 1 [] k = 1 -> 10 [] k = 2 -> 100 [] k = 3 -> 1000

RECURSIVE HexChunkVal(_)
\* the value of at most four hex digits
HexChunkVal(h) ==
    IF h = "" THEN 0
    ELSE 16 * HexChunkVal(SubSeq(h, 1, Len(h) - 1)) + HexVal(CharAt(h, Len(h)))

RECURSIVE HexToLimbs(_, _)
\* the hex digits h appended to the number acc, four digits at a step
\* (Len(next) >= 0 always holds: it has next evaluated before the next step)
HexToLimbs(h, acc) ==
    IF h = "" THEN acc
    ELSE LET k == IF Len(h) % 4 = 0 THEN 4 ELSE Len(h) % 4
             next == MulAddLimbs(acc, Pow16(k), HexChunkVal(SubSeq(h, 1, k)))
         IN  IF Len(next) >= 0 THEN HexToLimbs(SliceFrom(h, k), next) ELSE acc

LimbsToDigits(ls) ==
    [i \in 1..(4 * Len(ls)) |->
        (ls[((i - 1) \div 4) + 1] \div Pow10((i - 1) % 4)) % 10]

\* the value of the hex digits h; the most significant digits may be zero
HexDigitsToBig(h) == LimbsToDigits(HexToLimbs(h, <<>>))

RECURSIVE DigitsText(_)
\* the digits of ds, most significant first
DigitsText(ds) ==
    IF ds = <<>> THEN ""
    ELSE IF Len(ds) = 1 THEN DigitChar(ds[1])
    ELSE LET h == Len(ds) \div 2
         IN  DigitsText(SubSeq(ds, h + 1, Len(ds))) \o DigitsText(SubSeq(ds, 1, h))

\* BigInt.prototype.toString(): most significant digit first, "0" for zero
BigToString(ds) == IF ds = <<>> THEN "0" ELSE DigitsText(ds)

RECURSIVE IntToBig(_)
IntToBig(n) == IF n = 0 THEN <<>> ELSE <<n % 10>> \o IntToBig(n \div 10)

\* drops the most significant zero digits
StripZeros(ds) ==
    LET nonzero == {i \in 1..Len(ds) : ds[i] # 0}
    IN  IF nonzero = {} THEN <<>>
        ELSE SubSeq(ds, 1, CHOOSE i \in nonzero : \A j \in nonzero : j <= i)

RECURSIVE Group3(_)
\* the en-US grouping of toLocaleString: a comma before every third digit
Group3(s) ==
    IF Len(s) <= 3 THEN s
    ELSE LET groups == (Len(s) + 2) \div 3
             right == 3 * (groups \div 2)
         IN  Group3(SubSeq(s, 1, Len(s) - right)) \o ","
                \o Group3(SubSeq(s, Len(s) - right + 1, Len(s)))

\* BigInt.prototype.toLocaleString()
BigToLocaleString(ds) == Group3(BigToString(ds))

RECURSIVE StripTrailingZeros(_)
StripTrailingZeros(s) ==
    IF s # "" /\ CharAt(s, Len(s)) = "0"
    THEN StripTrailingZeros(SubSeq(s, 1, Len(s) - 1))
    ELSE s

\* ds < es, for numbers without leading zeros
BigLess(ds, es) ==
    \/ Len(ds) < Len(es)
    \/ /\ Len(ds) = Len(es)
       /\ \E i \in 1..Len(ds) :
             ds[i] < es[i] /\ \A k \in (i + 1)..Len(ds) : ds[k] = es[k]

\* ds - 1, for ds above zero
SubOne(ds) ==
    LET k == CHOOSE i \in 1..Len(ds) : ds[i] # 0 /\ \A n \in 1..(i - 1) : ds[n] = 0
    IN  StripZeros([i \in 1..Len(ds) |->
                       IF i < k THEN 9 ELSE IF i = k THEN ds[i] - 1 ELSE ds[i]])

\* ds * 10^n
TimesPow10(ds, n) ==
    IF ds = <<>> THEN <<>>
    ELSE [i \in 1..(Len(ds) + n) |-> IF i <= n THEN 0 ELSE ds[i - n]]

\* the number of binary digits of a number below 2^24
SmallBits(n) == IF n = 0 THEN 0 ELSE CHOOSE b \in 1..24 : 2^(b - 1) <= n /\ n < 2^b

RECURSIVE BitLength(_)
\* the number of binary digits of ds
BitLength(ds) ==
    Apply(ds, LAMBDA v :
        IF v = <<>> THEN 0
        ELSE Apply(DivRem(v, 2^24), LAMBDA d :
             Apply(StripZeros(d.q), LAMBDA q :
                 IF q = <<>> THEN SmallBits(d.r) ELSE BitLength(q) + 24)))

RECURSIVE ShiftRight(_, _, _)
\* floor(ds / 2^e), and whether a nonzero bit was shifted out (or lost was
\* set already)
ShiftRight(ds, e, lost) ==
    IF e = 0 THEN [q |-> ds, lost |-> lost]
    ELSE Apply(DivRem(ds, 2^(IF e > 24 THEN 24 ELSE e)), LAMBDA d :
             ShiftRight(StripZeros(d.q), IF e > 24 THEN e - 24 ELSE 0,
                        lost \/ d.r # 0))

RECURSIVE ShiftLeft(_, _)
\* ds * 2^e
ShiftLeft(ds, e) ==
    IF e = 0 THEN ds
    ELSE ShiftLeft(MulAdd(ds, 2^(IF e > 24 THEN 24 ELSE e), 0),
                   IF e > 24 THEN e - 24 ELSE 0)

RECURSIVE DivPow5(_, _, _)
\* floor(ds / 5^n), and whether a remainder was left
DivPow5(ds, n, lost) ==
    IF n = 0 THEN [q |-> ds, lost |-> lost]
    ELSE Apply(DivRem(ds, 5^(IF n > 9 THEN 9 ELSE n)), LAMBDA d :
             DivPow5(StripZeros(d.q), IF n > 9 THEN n - 9 ELSE 0,
                     lost \/ d.r # 0))

\* An IEEE 754 double above zero is [m |-> digits, e |-> exponent], the
\* number m * 2^e with m below 2^53 (2^53 itself after a carry); zero is
\* m = <<>>.  RoundToDouble is the double nearest to ds, or to a number
\* between ds and ds + 1 when lost says that a fraction was cut off: 53
\* significant bits, ties to the even significand.
RoundToDouble(ds, lost) ==
    Apply(ds, LAMBDA v :
    Apply(BitLength(v), LAMBDA bits :
        IF bits <= 53 THEN [m |-> v, e |-> 0]
        ELSE Apply(ShiftRight(v, bits - 54, lost), LAMBDA y :
             Apply(DivRem(y.q, 2), LAMBDA d :
             Apply(StripZeros(d.q), LAMBDA q :
                 [m |-> IF d.r = 1 /\ (y.lost \/ q[1] % 2 = 1)
                        THEN AddOne(q) ELSE q,
                  e |-> bits - 53])))))

\* Number(wei) for a BigInt wei
BigIntToDouble(ds) == RoundToDouble(ds, FALSE)

\* x / 10^n, the double division by the double 1e9 or 1e18 (both exact):
\* the quotient m * 2^s / 5^n is taken with at least 54 bits and rounded
DoubleDivPow10(x, n) ==
    Apply(x, LAMBDA v :
        IF v.m = <<>> THEN v
        ELSE Apply(54 + 3 * n - BitLength(v.m), LAMBDA s :
             Apply(DivPow5(ShiftLeft(v.m, s), n, FALSE), LAMBDA d :
             Apply(RoundToDouble(d.q, d.lost), LAMBDA r :
                 [m |-> r.m, e |-> r.e - s + v.e - n]))))

\* x with a significand of exactly 53 bits
Normalized(x) ==
    Apply(x, LAMBDA v :
    Apply(53 - BitLength(v.m), LAMBDA k :
        IF k > 0 THEN [m |-> ShiftLeft(v.m, k), e |-> v.e - k]
        ELSE IF k < 0 THEN [m |-> StripZeros(DivRem(v.m, 2).q), e |-> v.e + 1]
        ELSE v))

\* The numbers that round to the double with the 53-bit significand m lie,
\* in quarters of its last binary place, between 4m - 2 (4m - 1 when m is
\* 2^52, below which the places are half as wide) and 4m + 2
QuarterBounds(m) ==
    Apply(ShiftLeft(m, 2), LAMBDA centre :
        [low |-> IF BitLength(SubOne(m)) < 53 THEN SubOne(centre)
                 ELSE SubOne(SubOne(centre)),
         high |-> AddOne(AddOne(centre))])

\* whether some decimal with f fraction digits converts back to the double
\* m * 2^(-g), m of 53 bits; the bounds themselves convert back when m is
\* even
RoundTrips(m, g, f) ==
    Apply(QuarterBounds(m), LAMBDA b :
    Apply(ShiftRight(TimesPow10(b.low, f), g + 2, FALSE), LAMBDA lo :
    Apply(ShiftRight(TimesPow10(b.high, f), g + 2, FALSE), LAMBDA hi :
    Apply(IF m[1] % 2 = 0 /\ ~lo.lost THEN lo.q ELSE AddOne(lo.q),
          LAMBDA least :
        IF m[1] % 2 = 0 \/ hi.lost THEN ~BigLess(hi.q, least)
        ELSE BigLess(least, hi.q)))))

\* floor(ds / 10^n), and whether a nonzero digit was cut off
FloorPow10(ds, n) ==
    [q |-> IF Len(ds) > n THEN SubSeq(ds, n + 1, Len(ds)) ELSE <<>>,
     lost |-> \E i \in 1..n : i <= Len(ds) /\ ds[i] # 0]

\* whether some multiple of 10^p converts back to the double m * 2^e, m of
\* 53 bits and e not below zero
WholeRoundTrips(m, e, p) ==
    Apply(QuarterBounds(m), LAMBDA b :
    Apply(ShiftLeft(b.low, e), LAMBDA lows :
    Apply(ShiftLeft(b.high, e), LAMBDA highs :
    Apply(DivRem(FloorPow10(lows, p).q, 4), LAMBDA lo :
    Apply(DivRem(FloorPow10(highs, p).q, 4), LAMBDA hi :
    Apply(StripZeros(hi.q), LAMBDA most :
    Apply(IF m[1] % 2 = 0 /\ ~FloorPow10(lows, p).lost /\ lo.r = 0
          THEN StripZeros(lo.q) ELSE AddOne(StripZeros(lo.q)),
          LAMBDA least :
        IF m[1] % 2 = 0 \/ FloorPow10(highs, p).lost \/ hi.r # 0
        THEN ~BigLess(most, least)
        ELSE BigLess(least, most))))))))

\* the greatest p in lo..hi such that a multiple of 10^p converts back to
\* the whole double m * 2^e; a multiple of 10^p is one of every lower power
RECURSIVE GreatestPowerOfTen(_, _, _, _)
GreatestPowerOfTen(m, e, lo, hi) ==
    IF lo >= hi THEN lo
    ELSE IF WholeRoundTrips(m, e, (lo + hi + 1) \div 2)
    THEN GreatestPowerOfTen(m, e, (lo + hi + 1) \div 2, hi)
    ELSE GreatestPowerOfTen(m, e, lo, (lo + hi + 1) \div 2 - 1)

\* the shortest decimal of the whole double m * 2^e: the multiple of the
\* greatest power of ten that converts back, the nearest to the double, the
\* even one of two equally near
ShortestWhole(m, e) ==
    Apply(ShiftLeft(m, e), LAMBDA v :
    Apply(GreatestPowerOfTen(m, e, 0, Len(v)), LAMBDA p :
    Apply(FloorPow10(v, p).q, LAMBDA q :
    Apply(IF /\ p > 0
             /\ v[p] >= 5
             /\ (v[p] = 5 /\ ~FloorPow10(v, p - 1).lost
                    => q # <<>> /\ q[1] % 2 = 1)
          THEN AddOne(q) ELSE q,
          LAMBDA r : TimesPow10(r, p)))))

\* the least number of fraction digits in lo..hi with which a decimal
\* converts back to the double m / 2^g; more digits convert back whenever
\* fewer do, and g digits always do (the double is m * 5^g / 10^g)
RECURSIVE LeastFractionDigits(_, _, _, _)
LeastFractionDigits(m, g, lo, hi) ==
    IF lo >= hi THEN lo
    ELSE IF RoundTrips(m, g, (lo + hi) \div 2)
    THEN LeastFractionDigits(m, g, lo, (lo + hi) \div 2)
    ELSE LeastFractionDigits(m, g, (lo + hi) \div 2 + 1, hi)

\* the shortest decimal that converts back to the double x, as ICU takes it
\* to format a double: [c |-> digits, f |-> fraction digits], the number
\* c / 10^f with the fewest digits, the nearest to x among those, the even
\* one of two equally near
ShortestDecimal(x) ==
    Apply(Normalized(x), LAMBDA n :
        IF n.m = <<>> THEN [c |-> <<>>, f |-> 0]
        ELSE IF n.e >= 0 THEN [c |-> ShortestWhole(n.m, n.e), f |-> 0]
        ELSE Apply(LeastFractionDigits(n.m, 0 - n.e, 0, 0 - n.e), LAMBDA f :
             Apply(ShiftRight(TimesPow10(n.m, f), 0 - n.e - 1, FALSE),
                   LAMBDA y :
             Apply(DivRem(y.q, 2), LAMBDA d :
             Apply(StripZeros(d.q), LAMBDA q :
                 [c |-> IF d.r = 1 /\ (y.lost \/ (q # <<>> /\ q[1] % 2 = 1))
                        THEN AddOne(q) ELSE q,
                  f |-> f])))))

\* the decimal dec rounded half up to at most frac fraction digits: the
\* integer part grouped, the trailing zeros of the fraction dropped
DecimalToLocaleString(dec, frac) ==
    LET drop == IF dec.f > frac THEN dec.f - frac ELSE 0
        kept == IF Len(dec.c) > drop
                THEN SubSeq(dec.c, drop + 1, Len(dec.c)) ELSE <<>>
        up == drop > 0 /\ Len(dec.c) >= drop /\ dec.c[drop] >= 5
        places == dec.f - drop
    IN  Apply(StripZeros(IF up THEN AddOne(kept) ELSE kept), LAMBDA r :
        Apply(StripTrailingZeros(
                  IF places = 0 THEN ""
                  ELSE SliceFrom(BigToString(
                           [i \in 1..places |-> IF i <= Len(r) THEN r[i] ELSE 0]
                               \o <<1>>), 1)),
              LAMBDA fs :
            BigToLocaleString(IF Len(r) > places
                              THEN SubSeq(r, places + 1, Len(r)) ELSE <<>>)
                \o (IF fs = "" THEN "" ELSE "." \o fs)))

\* (Number(ds) / 10^shift).toLocaleString(undefined, {maximumFractionDigits: frac}):
\* the double quotient's shortest decimal, rounded half up to frac fraction
\* digits
ScaledToLocaleString(ds, shift, frac) ==
    Apply(ShortestDecimal(DoubleDivPow10(BigIntToDouble(ds), shift)),
          LAMBDA dec : DecimalToLocaleString(dec, frac))

WeiPerEthDigits == 18
WeiPerGweiDigits == 9
EthFractionDigits == 8
GweiFractionDigits == 2

formatEth(wei) ==
    ScaledToLocaleString(wei, WeiPerEthDigits, EthFractionDigits) \o " ETH"

formatGwei(wei) ==
    ScaledToLocaleString(wei, WeiPerGweiDigits, GweiFractionDigits) \o " Gwei"

formatNumber(num) == BigToLocaleString(num)

-----------------------------------------------------------------------------
(* JavaScript conversions.  A Number is [nan |-> TRUE] or [nan |-> FALSE,  *)
(* n |-> digits]; a BigInt is its digits; a conversion that throws is      *)
(* [ok |-> FALSE].                                                         *)

NaN == [nan |-> TRUE]
Number(ds) == [nan |-> FALSE, n |-> ds]

RECURSIVE ToStr(_)
\* String(x), as a template literal converts x; an array joins its elements
\* with commas, null and undefined elements as the empty string
ToStr(j) ==
    CASE j.t = "undef" -> "undefined"
      [] j.t = "null" -> "null"
      [] j.t = "str" -> j.v
      [] j.t = "bool" -> IF j.v THEN "true" ELSE "false"
      [] j.t = "num" ->
            BigToString(IntToBig(j.v)) \o (IF IsInteger(j) THEN "" ELSE ".5")
      [] j.t = "arr" ->
            IF j.v = <<>> THEN ""
            ELSE LET h == Head(j.v)
                     hs == IF h.t \in {"undef", "null"} THEN "" ELSE ToStr(h)
                 IN  IF Len(j.v) = 1 THEN hs
                     ELSE hs \o "," \o ToStr(Arr(Tail(j.v)))
      [] OTHER -> "[object Object]"

NumberToStr(x) == IF x.nan THEN "NaN" ELSE BigToString(x.n)
NumberToLocaleString(x) == IF x.nan THEN "NaN" ELSE BigToLocaleString(x.n)

\* the length of the longest prefix of s made of hex digits
HexPrefixLen(s) ==
    LET others == {i \in 1..Len(s) : CharAt(s, i) \notin HexDigits}
    IN  IF others = {} THEN Len(s)
        ELSE (CHOOSE i \in others : \A j \in others : i <= j) - 1

\* parseInt(x, 16): x as a string, an optional 0x, then the leading hex digits
parseInt16(j) ==
    LET s == ToStr(j)
        body == IF StartsWith(s, "0x") \/ StartsWith(s, "0X")
                THEN SliceFrom(s, 2) ELSE s
        n == HexPrefixLen(body)
    IN  IF n = 0 THEN NaN
        ELSE Number(StripZeros(HexDigitsToBig(SubSeq(body, 1, n))))

DecDigits == {"0", "1", "2", "3", "4", "5", "6", "7", "8", "9"}
AllDec(s) == \A i \in 1..Len(s) : CharAt(s, i) \in DecDigits

RECURSIVE DecDigitsToBig(_, _)
DecDigitsToBig(s, acc) ==
    IF s = "" THEN acc
    ELSE DecDigitsToBig(Tail(s), MulAdd(acc, 10, HexVal(Head(s))))

\* BigInt(x): the whole string must be a literal; "" is 0, "0x" alone throws
BigInt(j) ==
    CASE j.t = "str" /\ j.v = "" -> [ok |-> TRUE, n |-> <<>>]
      [] j.t = "str" /\ (StartsWith(j.v, "0x") \/ StartsWith(j.v, "0X")) ->
            IF Len(j.v) > 2 /\ AllHex(SliceFrom(j.v, 2))
            THEN [ok |-> TRUE,
                  n |-> StripZeros(HexDigitsToBig(SliceFrom(j.v, 2)))]
            ELSE [ok |-> FALSE]
      [] j.t = "str" /\ AllDec(j.v) ->
            [ok |-> TRUE, n |-> StripZeros(DecDigitsToBig(j.v, <<>>))]
      [] j.t = "bool" -> [ok |-> TRUE, n |-> IF j.v THEN <<1>> ELSE <<>>]
      [] j.t = "num" /\ IsInteger(j) -> [ok |-> TRUE, n |-> IntToBig(j.v)]
      [] OTHER -> [ok |-> FALSE]

-----------------------------------------------------------------------------
(* Transport: makeEthRpcRequest *)

API_BASE_URL == "https://docs-demo.quiknode.pro"
USER_AGENT == "ftm-mcp-server/1.0"

\* what JSON.parse cannot read
Unparseable == [t |-> "unparseable"]

\* the request makeEthRpcRequest hands to fetch
RpcRequest(method, params, id) ==
    [url |-> API_BASE_URL,
     httpMethod |-> "POST",
     contentType |-> "application/json",
     userAgent |-> USER_AGENT,
     body |-> [jsonrpc |-> "2.0", method |-> method, params |-> params, id |-> id]]

\* response.ok
ResponseOk(status) == status >= 200 /\ status <= 299

\* a catch block that sends the request once more
OnRequestErrorRetry(requests) == Append(requests, requests[Len(requests)])

\* the catch block: log to the error stream, send nothing more, resolve to null
OnRequestError(requests) == requests

\* what the promise resolves to, given what the network did: null when fetch
\* rejects, when the status is not 2xx and when the body is not JSON
makeEthRpcRequest(outcome) ==
    IF outcome.kind = "reject" THEN JNull
    ELSE IF ~ResponseOk(outcome.status) THEN JNull
    ELSE IF outcome.body.t = "unparseable" THEN JNull
    ELSE outcome.body

-----------------------------------------------------------------------------
(* Schema primitives (zod) *)

zString(j) == j.t = "str"
zLength(j, n) == zString(j) /\ Len(j.v) = n
zMin(j, n) == zString(j) /\ Len(j.v) >= n
zStartsWith(j, p) == zString(j) /\ StartsWith(j.v, p)
\* /^0x[0-9a-fA-F]+$/
HexPlus(s) == StartsWith(s, "0x") /\ Len(s) > 2 /\ AllHex(SliceFrom(s, 2))
\* /^0x[0-9a-fA-F]*$/
HexStar(s) == StartsWith(s, "0x") /\ AllHex(SliceFrom(s, 2))
\* /^0x[a-fA-F0-9]{64}$/
Hex64(s) == StartsWith(s, "0x") /\ Len(s) = 66 /\ AllHex(SliceFrom(s, 2))

AddressLength == 42
HashLength == 66
RawTransactionMinLength == 68

\* z.string().length(42).startsWith("0x")
zAddress(j) == zLength(j, AddressLength) /\ zStartsWith(j, "0x")
\* the hash schema without its regular expression
zHashWithoutRegex(j) == zLength(j, HashLength) /\ zStartsWith(j, "0x")
\* z.string().length(66).startsWith("0x").regex(/^0x[a-fA-F0-9]{64}$/)
zHash(j) == zLength(j, HashLength) /\ zStartsWith(j, "0x") /\ Hex64(j.v)
\* z.string().startsWith("0x").regex(/^0x[0-9a-fA-F]+$/)
zHexQuantity(j) == zStartsWith(j, "0x") /\ HexPlus(j.v)
\* z.string().startsWith("0x").regex(/^0x[0-9a-fA-F]*$/)
zHexData(j) == zStartsWith(j, "0x") /\ HexStar(j.v)
\* z.string().refine(val => /^0x[a-fA-F0-9]+$/.test(val) ||
\*                          ["latest", "earliest", "pending"].includes(val))
zBlockRefine(j) ==
    zString(j) /\ (HexPlus(j.v) \/ j.v \in {"latest", "earliest", "pending"})
\* z.string().optional().default("latest") and z.string().default("latest")
zBlockTag(j) == j.t = "undef" \/ zString(j)
\* z.array(z.string())
zStringArray(j) == j.t = "arr" /\ \A i \in 1..Len(j.v) : zString(j.v[i])

\* .default(d)
Default(j, d) == IF j.t = "undef" THEN d ELSE j

\* a helper that answers as its name says: true for 0x-prefixed hex
checkValidHexadecimalAsNamed(str) == HexStar(str)

\* a helper that asks for one hex digit at least: /^0x[0-9A-Fa-f]+$/
checkValidHexadecimalOneOrMore(str) == ~HexPlus(str)

\* checkValidHexadecimal(str): true for a string that is NOT 0x-prefixed hex
checkValidHexadecimal(str) == ~HexStar(str)

-----------------------------------------------------------------------------
(* The tools: server.tool(name, description, schema, handler) *)

AddressTools == {"get-balance", "get-contract-code"}
TransactionHashTools == {"get-transaction", "get-transaction-receipt"}
BlockNumberIndexTools ==
    {"get-transaction-by-block-number", "get-transaction-by-block-number-index"}
LogFilterTools == {"get-logs", "get-new-filter"}
FilterIdTools == {"get-filter-changes", "get-filter-logs", "uninstall-filter"}
\* registered without a schema, or with the empty schema
NoArgumentTools ==
    {"get-block-number", "get-gas-price", "get-max-priority-fee",
     "get-new-block-filter", "get-new-pending-tran-filter",
     "get-client-version", "get-chain-id", "get-network-id",
     "is-network-listening", "get-peer-count", "get-sync-status",
     "is-mining", "get-hashrate"}
\* the handlers that also test typeof rpcResult.result === "undefined"
UndefinedCheckedTools == {"get-sync-status", "is-mining", "get-hashrate"}

ToolNames ==
    AddressTools \cup TransactionHashTools \cup BlockNumberIndexTools
    \cup LogFilterTools \cup FilterIdTools \cup NoArgumentTools
    \cup {"get-storage-at", "get-proof", "get-fee-history",
          "get-transaction-by-block", "send-raw-transaction", "call-contract",
          "estimate-gas", "submit-proof-of-work", "get-sha3-hash"}

\* the JSON-RPC method each handler passes to makeEthRpcRequest
RpcMethod(t) ==
    CASE t = "get-balance" -> "eth_getBalance"
      [] t = "get-contract-code" -> "eth_getCode"
      [] t = "get-storage-at" -> "eth_getStorageAt"
      [] t = "get-proof" -> "eth_getProof"
      [] t = "get-block-number" -> "eth_blockNumber"
      [] t = "get-gas-price" -> "eth_gasPrice"
      [] t = "get-fee-history" -> "eth_feeHistory"
      [] t = "get-max-priority-fee" -> "eth_maxPriorityFeePerGas"
      [] t = "get-transaction" -> "eth_getTransactionByHash"
      [] t = "get-transaction-by-block" -> "eth_getTransactionByBlockHashAndIndex"
      [] t \in BlockNumberIndexTools -> "eth_getTransactionByBlockNumberAndIndex"
      [] t = "get-transaction-receipt" -> "eth_getTransactionReceipt"
      [] t = "send-raw-transaction" -> "eth_sendRawTransaction"
      [] t = "call-contract" -> "eth_call"
      [] t = "estimate-gas" -> "eth_estimateGas"
      [] t = "get-logs" -> "eth_getLogs"
      [] t = "get-new-filter" -> "eth_newFilter"
      [] t = "get-new-block-filter" -> "eth_newBlockFilter"
      [] t = "get-new-pending-tran-filter" -> "eth_newBlockFilter"
      [] t = "get-filter-changes" -> "eth_getFilterChanges"
      [] t = "get-filter-logs" -> "eth_getFilterLogs"
      [] t = "uninstall-filter" -> "eth_uninstallFilter"
      [] t = "submit-proof-of-work" -> "eth_submitWork"
      [] t = "get-client-version" -> "web3_clientVersion"
      [] t = "get-sha3-hash" -> "web3_sha3"
      [] t = "get-chain-id" -> "eth_chainId"
      [] t = "get-network-id" -> "net_version"
      [] t = "is-network-listening" -> "net_listening"
      [] t = "get-peer-count" -> "net_peerCount"
      [] t = "get-sync-status" -> "eth_syncing"
      [] t = "is-mining" -> "eth_mining"
      [] t = "get-hashrate" -> "eth_hashrate"

DefaultRequestId == 1
FilterRequestId == 67

RequestId(t) ==
    IF t \in {"get-new-block-filter", "get-new-pending-tran-filter"}
    THEN FilterRequestId ELSE DefaultRequestId

\* the text each handler puts before the error message
FailurePrefix(t, a) ==
    CASE t = "get-balance" -> "Failed to retrieve balance: "
      [] t = "get-contract-code" -> "Failed to retrieve contract code: "
      [] t = "get-storage-at" -> "Failed to retrieve storage: "
      [] t = "get-proof" -> "Failed to retrieve proof: "
      [] t = "get-block-number" -> "Failed to retrieve latest block: "
      [] t = "get-gas-price" -> "Failed to retrieve latest gas price: "
      [] t = "get-fee-history" -> "Failed to retrieve fee history: "
      [] t = "get-max-priority-fee" -> "Failed to retrieve max priority fee: "
      [] t \in {"get-transaction", "get-transaction-by-block"}
            \cup BlockNumberIndexTools -> "Failed to fetch transaction: "
      [] t = "get-transaction-receipt" -> "Failed to fetch transaction receipt: "
      [] t = "send-raw-transaction" -> "(x) Failed to submit transaction: "
      [] t = "call-contract" -> "Call failed: "
      [] t = "estimate-gas" -> "Gas estimation failed: "
      [] t = "get-logs" -> "Failed to fetch logs: "
      [] t = "get-new-filter" -> "Failed to create filter: "
      [] t = "get-new-block-filter" -> "Failed to create block filter: "
      [] t = "get-new-pending-tran-filter" ->
            "Failed to create new pending transcation filter: "
      [] t = "get-filter-changes" -> "Failed to get filter changes: "
      [] t = "get-filter-logs" ->
            "Failed to get logs for filter ID " \o ToStr(a.filterId) \o ": "
      [] t = "uninstall-filter" ->
            "Failed to uninstall filter ID " \o ToStr(a.filterId) \o ": "
      [] t = "submit-proof-of-work" -> "Failed to submit PoW solution: "
      [] t = "get-client-version" -> "Failed to fetch client version: "
      [] t = "get-sha3-hash" -> "Failed to compute SHA3 hash: "
      [] t = "get-chain-id" -> "Failed to fetch chain ID: "
      [] t = "get-network-id" -> "Failed to fetch network ID: "
      [] t = "is-network-listening" ->
            "Failed to check network listening status: "
      [] t = "get-peer-count" -> "Failed to fetch peer count: "
      [] t = "get-sync-status" -> "Failed to check sync status: "
      [] t = "is-mining" -> "Failed to check mining status: "
      [] t = "get-hashrate" -> "Failed to fetch hashrate: "

\* the text after || when the reply carries no error message
FallbackMessage(t) ==
    IF t \in UndefinedCheckedTools
    THEN "Invalid or undefined response from node."
    ELSE "Unknown error"

-----------------------------------------------------------------------------
(* The parameter schemas.  a is the caller's argument object: a record     *)
(* with one field per schema key, Undef where the caller gave none.        *)

zOptional(j, ok) == j.t = "undef" \/ ok

\* z.number().min(1).max(1024)
MinBlockCount == 1
MaxBlockCount == 1024
zBlockCount(j) ==
    /\ j.t = "num"
    /\ j.v >= MinBlockCount
    /\ IF IsInteger(j) THEN j.v <= MaxBlockCount ELSE j.v < MaxBlockCount

\* z.array(z.number())
zNumberArray(j) == j.t = "arr" /\ \A i \in 1..Len(j.v) : j.v[i].t = "num"

\* call-contract: callData
zCallData(j) ==
    /\ j.t = "obj"
    /\ zAddress(Get(j, "to"))
    /\ zHexData(Get(j, "data"))
    /\ zOptional(Get(j, "from"), zAddress(Get(j, "from")))
    /\ zOptional(Get(j, "gas"), zHexQuantity(Get(j, "gas")))
    /\ zOptional(Get(j, "gasPrice"), zHexQuantity(Get(j, "gasPrice")))
    /\ zOptional(Get(j, "value"), zHexQuantity(Get(j, "value")))

\* estimate-gas: transaction
zTransaction(j) ==
    /\ j.t = "obj"
    /\ zAddress(Get(j, "from"))
    /\ zAddress(Get(j, "to"))
    /\ zOptional(Get(j, "data"), zHexData(Get(j, "data")))
    /\ zOptional(Get(j, "value"), zHexQuantity(Get(j, "value")))
    /\ zOptional(Get(j, "gasPrice"), zHexQuantity(Get(j, "gasPrice")))
    /\ zOptional(Get(j, "gas"), zHexQuantity(Get(j, "gas")))

CallKeys == {"to", "data", "from", "gas", "gasPrice", "value"}

\* z.object strips the keys the schema does not name
StripUnknown(j) ==
    Obj([k \in (DOMAIN j.v) \cap CallKeys |-> j.v[k]])

\* whether the caller's arguments pass the tool's schema
SchemaOk(t, a) ==
    CASE t \in AddressTools -> zAddress(a.address) /\ zBlockTag(a.blockNumber)
      [] t = "get-storage-at" ->
            /\ zAddress(a.address)
            /\ zStartsWith(a.position, "0x")
            /\ zBlockTag(a.blockNumber)
      [] t = "get-proof" ->
            /\ zAddress(a.address)
            /\ zStringArray(a.storageKeys)
            /\ zBlockTag(a.blockNumber)
      [] t = "get-fee-history" ->
            /\ zBlockCount(a.blockCount)
            /\ zString(a.newestBlock)
            /\ zNumberArray(a.rewardPercentiles)
      [] t \in TransactionHashTools -> zHash(a.transactionHash)
      [] t = "get-transaction-by-block" ->
            zHash(a.blockHash) /\ zHexQuantity(a.transactionIndex)
      [] t \in BlockNumberIndexTools ->
            zBlockRefine(a.blockNumber) /\ zHexQuantity(a.transactionIndex)
      [] t = "send-raw-transaction" ->
            /\ zHexQuantity(a.rawTransaction)
            /\ zMin(a.rawTransaction, RawTransactionMinLength)
      [] t = "call-contract" ->
            zCallData(a.callData) /\ zOptional(a.block, zBlockRefine(a.block))
      [] t = "estimate-gas" ->
            /\ zTransaction(a.transaction)
            /\ zOptional(a.block, zBlockRefine(a.block))
      [] t \in LogFilterTools ->
            /\ zBlockTag(a.fromBlock)
            /\ zBlockTag(a.toBlock)
            /\ zAddress(a.address)
            /\ zOptional(a.topics, zStringArray(a.topics))
      [] t \in FilterIdTools -> zMin(a.filterId, 1)
      [] t = "submit-proof-of-work" ->
            zMin(a.nonce, 1) /\ zMin(a.hash, 1) /\ zMin(a.digest, 1)
      [] t = "get-sha3-hash" -> zMin(a.data, 1)
      [] t \in NoArgumentTools -> TRUE

Latest == Str("latest")

\* the arguments the handler receives: defaults applied, unknown keys dropped
ParseArgs(t, a) ==
    CASE t \in AddressTools \cup {"get-storage-at", "get-proof"} ->
            [a EXCEPT !.blockNumber = Default(@, Latest)]
      [] t = "call-contract" ->
            [callData |-> StripUnknown(a.callData),
             block |-> Default(a.block, Latest)]
      [] t = "estimate-gas" ->
            [transaction |-> StripUnknown(a.transaction),
             block |-> Default(a.block, Latest)]
      [] t \in LogFilterTools ->
            [a EXCEPT !.fromBlock = Default(@, Latest),
                      !.toBlock = Default(@, Latest)]
      [] OTHER -> a

\* the filter object get-logs and get-new-filter build
LogFilter(a) ==
    Obj(IF a.topics.t = "undef"
        THEN [fromBlock |-> a.fromBlock, toBlock |-> a.toBlock,
              address |-> a.address]
        ELSE [fromBlock |-> a.fromBlock, toBlock |-> a.toBlock,
              address |-> a.address, topics |-> a.topics])

\* a variant that sends the filter ID without its 0x prefix
FilterIdParamsWithoutPrefix(a) == <<Str(SliceFrom(ToStr(a.filterId), 2))>>

\* [filterId], the params of the three tools that take a filter ID
FilterIdParams(a) == <<a.filterId>>

\* the params array each handler passes to makeEthRpcRequest
Params(t, a) ==
    CASE t \in AddressTools -> <<a.address, OrElse(a.blockNumber, Latest)>>
      [] t = "get-storage-at" ->
            <<a.address, a.position, OrElse(a.blockNumber, Latest)>>
      [] t = "get-proof" ->
            <<a.address, a.storageKeys, OrElse(a.blockNumber, Latest)>>
      [] t = "get-fee-history" ->
            <<a.blockCount, a.newestBlock, a.rewardPercentiles>>
      [] t \in TransactionHashTools -> <<a.transactionHash>>
      [] t = "get-transaction-by-block" -> <<a.blockHash, a.transactionIndex>>
      [] t \in BlockNumberIndexTools -> <<a.blockNumber, a.transactionIndex>>
      [] t = "send-raw-transaction" -> <<a.rawTransaction>>
      [] t = "call-contract" -> <<a.callData, a.block>>
      [] t = "estimate-gas" -> <<a.transaction, a.block>>
      [] t \in LogFilterTools -> <<LogFilter(a)>>
      [] t \in FilterIdTools -> FilterIdParams(a)
      [] t = "submit-proof-of-work" -> <<a.nonce, a.hash, a.digest>>
      [] t = "get-sha3-hash" -> <<a.data>>
      [] t \in NoArgumentTools -> <<>>

-----------------------------------------------------------------------------
(* What a handler produces: content blocks of text, or an exception that   *)
(* leaves the handler (a TypeError or SyntaxError nothing catches).        *)

Blocks(texts) == [kind |-> "content", content |-> texts]
Text(s) == Blocks(<<s>>)
Thrown == [kind |-> "throw"]
\* the host's answer when the arguments fail the schema: the handler never runs
ValidationError == [kind |-> "invalid"]

Nullish(j) == j.t \in {"undef", "null"}

RECURSIVE Join(_, _)
\* texts.join(sep)
Join(texts, sep) ==
    IF texts = <<>> THEN ""
    ELSE IF Len(texts) = 1 THEN texts[1]
    ELSE texts[1] \o sep \o Join(Tail(texts), sep)

\* a JSON array's elements as join() prints them
ElementStrings(a) ==
    [i \in 1..Len(a) |-> IF Nullish(a[i]) THEN "" ELSE ToStr(a[i])]

Indent14 == "\n              "
Indent16 == "\n                "

\* a handler that tests rpcResult.error without testing rpcResult first
FailedWithoutNullTest(t, r) ==
    \/ Truthy(Get(r, "error"))
    \/ t \in UndefinedCheckedTools /\ Get(r, "result").t = "undef"

\* the if that opens every handler: !rpcResult || rpcResult.error, and in
\* three handlers also typeof rpcResult.result === "undefined"
Failed(t, r) ==
    \/ ~Truthy(r)
    \/ Truthy(Get(r, "error"))
    \/ t \in UndefinedCheckedTools /\ Get(r, "result").t = "undef"

\* rpcResult?.error?.message || "Unknown error"
ErrorMessage(t, r) ==
    OrElse(Get(Get(r, "error"), "message"), Str(FallbackMessage(t)))

RevertPattern == "reverted: 0x"

\* the pattern with lower-case hex digits only, /reverted: (0x[0-9a-f]+)/
RevertReasonLowerCase(msg) ==
    LET n == Len(RevertPattern)
        lower == HexDigits \ {"A", "B", "C", "D", "E", "F"}
        hits == {i \in 1..(Len(msg) - n) :
                    /\ SubSeq(msg, i, i + n - 1) = RevertPattern
                    /\ CharAt(msg, i + n) \in lower}
    IN  IF hits = {} THEN ""
        ELSE LET i == CHOOSE h \in hits : \A k \in hits : h <= k
                 rest == SubSeq(msg, i + n, Len(msg))
                 others == {j \in 1..Len(rest) : CharAt(rest, j) \notin lower}
                 len == IF others = {} THEN Len(rest)
                        ELSE (CHOOSE j \in others : \A k \in others : j <= k) - 1
             IN  "0x" \o SubSeq(rest, 1, len)

\* errorMessage.match(/reverted: (0x[0-9a-fA-F]+)/)?.[1], "" when no match:
\* the leftmost place where the pattern and one hex digit stand, then the
\* longest run of hex digits
RevertReason(msg) ==
    LET n == Len(RevertPattern)
        hits == {i \in 1..(Len(msg) - n) :
                    /\ SubSeq(msg, i, i + n - 1) = RevertPattern
                    /\ CharAt(msg, i + n) \in HexDigits}
    IN  IF hits = {} THEN ""
        ELSE LET i == CHOOSE h \in hits : \A k \in hits : h <= k
                 rest == SubSeq(msg, i + n, Len(msg))
             IN  "0x" \o SubSeq(rest, 1, HexPrefixLen(rest))

\* the failure branch of a handler
FailureResult(t, a, r) ==
    LET m == ErrorMessage(t, r)
    IN  IF t \in {"call-contract", "estimate-gas"}
        THEN IF m.t # "str" THEN Thrown
             ELSE LET revertReason == RevertReason(m.v)
                  IN  Text(FailurePrefix(t, a) \o m.v \o
                           (IF revertReason # ""
                            THEN "\nRevert reason (hex): " \o revertReason
                            ELSE ""))
        ELSE Text(FailurePrefix(t, a) \o ToStr(m))

WordHexLength == 64
AddressPadLength == 24
BytesPreviewLength == 128

\* a decoder without the test for the empty response
tryDecodeWithoutEmptyTest(hexData) ==
    IF hexData.t # "str" THEN JNull
    ELSE
    LET cleanHex == IF StartsWith(hexData.v, "0x")
                    THEN SliceFrom(hexData.v, 2) ELSE hexData.v
        addressPart == SliceFrom(cleanHex, AddressPadLength)
    IN  IF /\ Len(cleanHex) = WordHexLength
           /\ AllZero(Slice(addressPart, 0, AddressPadLength))
        THEN Str("Address: 0x" \o addressPart)
        ELSE IF Len(cleanHex) = WordHexLength
        THEN IF AllHex(cleanHex)
             THEN Str("Uint256: " \o
                      BigToString(StripZeros(HexDigitsToBig(cleanHex))))
             ELSE JNull
        ELSE Str("Bytes: 0x" \o Slice(cleanHex, 0, BytesPreviewLength) \o "...")

\* a variant that shows the bytes whole
tryDecodeWithoutTruncation(hexData) ==
    IF hexData.t # "str" THEN JNull
    ELSE
    LET cleanHex == IF StartsWith(hexData.v, "0x")
                    THEN SliceFrom(hexData.v, 2) ELSE hexData.v
        addressPart == SliceFrom(cleanHex, AddressPadLength)
    IN  IF cleanHex = "" THEN Str("0x (empty)")
        ELSE IF /\ Len(cleanHex) = WordHexLength
                /\ AllZero(Slice(addressPart, 0, AddressPadLength))
        THEN Str("Address: 0x" \o addressPart)
        ELSE IF Len(cleanHex) = WordHexLength
        THEN IF AllHex(cleanHex)
             THEN Str("Uint256: " \o
                      BigToString(StripZeros(HexDigitsToBig(cleanHex))))
             ELSE JNull
        ELSE Str("Bytes: 0x" \o cleanHex \o "...")

\* a variant that tries the boolean before the integer
tryDecodeBoolBeforeUint256(hexData) ==
    IF hexData.t # "str" THEN JNull
    ELSE
    LET cleanHex == IF StartsWith(hexData.v, "0x")
                    THEN SliceFrom(hexData.v, 2) ELSE hexData.v
        addressPart == SliceFrom(cleanHex, AddressPadLength)
    IN  IF cleanHex = "" THEN Str("0x (empty)")
        ELSE IF /\ Len(cleanHex) = WordHexLength
                /\ AllZero(Slice(addressPart, 0, AddressPadLength))
        THEN Str("Address: 0x" \o addressPart)
        ELSE IF Len(cleanHex) = WordHexLength
        THEN IF AllHex(cleanHex)
             THEN Str("Bool: " \o
                      (IF StripZeros(HexDigitsToBig(cleanHex)) = <<1>>
                       THEN "true" ELSE "false"))
             ELSE JNull
        ELSE Str("Bytes: 0x" \o Slice(cleanHex, 0, BytesPreviewLength) \o "...")

\* tryDecodeSimpleTypes(hexData): a string, or null from the catch block
tryDecodeSimpleTypes(hexData) ==
    IF hexData.t # "str" THEN JNull
    ELSE
    LET cleanHex == IF StartsWith(hexData.v, "0x")
                    THEN SliceFrom(hexData.v, 2) ELSE hexData.v
        addressPart == SliceFrom(cleanHex, AddressPadLength)
    IN  IF cleanHex = "" THEN Str("0x (empty)")
        ELSE IF /\ Len(cleanHex) = WordHexLength
                /\ AllZero(Slice(addressPart, 0, AddressPadLength))
        THEN Str("Address: 0x" \o addressPart)
        ELSE IF Len(cleanHex) = WordHexLength
        THEN IF AllHex(cleanHex)
             THEN Str("Uint256: " \o
                      BigToString(StripZeros(HexDigitsToBig(cleanHex))))
             ELSE JNull
        ELSE IF Len(cleanHex) = WordHexLength
        THEN IF AllHex(cleanHex)
             THEN Str("Bool: " \o
                      (IF StripZeros(HexDigitsToBig(cleanHex)) = <<1>>
                       THEN "true" ELSE "false"))
             ELSE JNull
        ELSE Str("Bytes: 0x" \o Slice(cleanHex, 0, BytesPreviewLength) \o "...")

\* call-contract after the failure branch
callContract(a, r) ==
    LET res == Get(r, "result")
        decodeAttempt == tryDecodeSimpleTypes(res)
    IN  IF ~Truthy(res) THEN Text("No data returned from contract call")
        ELSE Text("Call result:" \o Indent14 \o "Raw hex: " \o ToStr(res)
                  \o Indent14 \o
                  (IF Truthy(decodeAttempt)
                   THEN "Decoded: " \o decodeAttempt.v ELSE ""))

\* Math.ceil(x * 1.2): the least integer not below 6x/5
CeilWithBuffer(x) ==
    IF x.nan THEN NaN
    ELSE Number(StripZeros(DivRem(MulAdd(MulAdd(x.n, 6, 0), 1, 4), 5).q))

\* estimate-gas after the failure branch
estimateGas(a, r) ==
    LET res == Get(r, "result")
        gasEstimate == parseInt16(res)
    IN  IF ~Truthy(res) THEN Text("Received invalid gas estimate from RPC node")
        ELSE IF res.t # "str" THEN Thrown
        ELSE IF ~StartsWith(res.v, "0x")
        THEN Text("Received invalid gas estimate from RPC node")
        ELSE Text("Gas estimate:" \o Indent14 \o "Hex: " \o res.v
                  \o Indent14 \o "Decimal: " \o NumberToLocaleString(gasEstimate)
                  \o Indent14 \o "Recommended gas limit: "
                  \o NumberToLocaleString(CeilWithBuffer(gasEstimate))
                  \o " (+20% buffer)")

-----------------------------------------------------------------------------
(* The handlers after their failure branch.  a: the parsed arguments,      *)
(* r: the reply body.                                                      *)

BlockOf(a) == ToStr(OrElse(a.blockNumber, Latest))

getBalance(a, r) ==
    LET balanceWei == BigInt(OrElse(Get(r, "result"), Str("0x0")))
    IN  IF ~balanceWei.ok THEN Thrown
        ELSE Text("ETH balance for " \o ToStr(a.address) \o " at block \""
                  \o BlockOf(a) \o "\":" \o formatEth(balanceWei.n)
                  \o " (" \o BigToLocaleString(balanceWei.n) \o " wei)")

getContractCode(a, r) ==
    Text("Contract code from " \o ToStr(a.address) \o " (block " \o BlockOf(a)
         \o "):\n" \o ToStr(OrElse(Get(r, "result"), Str("0x"))))

getStorageAt(a, r) ==
    Text("Storage at position " \o ToStr(a.position) \o " for "
         \o ToStr(a.address) \o " at block \"" \o BlockOf(a) \o "\": "
         \o ToStr(Get(r, "result")))

getBlockNumber(a, r) ==
    LET latestBlock == BigInt(OrElse(Get(r, "result"), Str("0x0")))
    IN  IF ~latestBlock.ok THEN Thrown
        ELSE Text("Latest block number: " \o formatNumber(latestBlock.n)
                  \o " (hex: " \o ToStr(Get(r, "result")) \o ")")

getGasPrice(a, r) ==
    LET latestGasPrice == BigInt(OrElse(Get(r, "result"), Str("0x0")))
    IN  IF ~latestGasPrice.ok THEN Thrown
        ELSE Text("Latest gas price: " \o formatGwei(latestGasPrice.n) \o " ("
                  \o BigToLocaleString(latestGasPrice.n) \o " wei)")

getMaxPriorityFee(a, r) ==
    LET maxPriorityFee == BigInt(OrElse(Get(r, "result"), Str("0x0")))
    IN  IF ~maxPriorityFee.ok THEN Thrown
        ELSE Text("Max Priority Fee Per Gas: " \o formatGwei(maxPriorityFee.n)
                  \o " (" \o BigToLocaleString(maxPriorityFee.n) \o " wei)")

sendRawTransaction(a, r) ==
    LET txHash == Get(r, "result")
    IN  IF ~Truthy(txHash) \/ ~Hex64(ToStr(txHash))
        THEN Text("(warn) Received invalid transaction hash from RPC node")
        ELSE Text("(ok) Transaction submitted successfully!\n\n"
                  \o "Transaction Hash: " \o txHash.v \o "\n"
                  \o "Block Explorer: https://etherscan.io/tx/" \o txHash.v)

getNewFilter(a, r) == Text("Filter ID: " \o ToStr(Get(r, "result")))

getNewBlockFilter(a, r) ==
    Text("New block filter created.\nFilter ID: " \o ToStr(Get(r, "result")))

getNewPendingTranFilter(a, r) == Text("Filter ID: " \o ToStr(Get(r, "result")))

uninstallFilter(a, r) ==
    Text(IF Truthy(Get(r, "result"))
         THEN "Successfully uninstalled filter ID " \o ToStr(a.filterId) \o "."
         ELSE "Failed to uninstall filter ID " \o ToStr(a.filterId) \o ".")

\* the handler reporting success whatever the node's verdict
submitProofOfWorkUnconditional(a, r) ==
    Text("Successfully submitted PoW solution.")

submitProofOfWork(a, r) ==
    Text(IF Truthy(Get(r, "result"))
         THEN "Successfully submitted PoW solution."
         ELSE "Failed to submit PoW solution. Invalid solution.")

getClientVersion(a, r) ==
    Text("Current Ethereum client version: " \o ToStr(Get(r, "result")))

getSha3Hash(a, r) ==
    Text("SHA3 (Keccak-256) hash of the provided data: "
         \o ToStr(Get(r, "result")))

InvalidHexText ==
    "Invalid hexadecimal input. Ensure the data starts with '0x' and contains only hexadecimal characters."

getChainId(a, r) ==
    Text("Chain ID: " \o NumberToStr(parseInt16(Get(r, "result")))
         \o " (hex: " \o ToStr(Get(r, "result")) \o ")")

getNetworkId(a, r) == Text("Network ID: " \o ToStr(Get(r, "result")))

isNetworkListening(a, r) ==
    Text(IF Truthy(Get(r, "result"))
         THEN "(ok) The node is listening for network connections."
         ELSE "(x) The node is not listening for network connections.")

getPeerCount(a, r) ==
    Text("Peer Count: " \o NumberToStr(parseInt16(Get(r, "result"))) \o " ("
         \o ToStr(Get(r, "result")) \o " in hex)")

getSyncStatus(a, r) ==
    LET res == Get(r, "result")
    IN  IF res.t = "bool" /\ ~res.v THEN Text("(ok) The node is fully synced.")
        ELSE IF Nullish(res) THEN Thrown
        ELSE Text("(sync) Node is syncing...\n\nStarting Block: "
                  \o NumberToStr(parseInt16(Get(res, "startingBlock")))
                  \o "\nCurrent Block: "
                  \o NumberToStr(parseInt16(Get(res, "currentBlock")))
                  \o "\nHighest Block: "
                  \o NumberToStr(parseInt16(Get(res, "highestBlock"))))

isMining(a, r) ==
    Text(IF Truthy(Get(r, "result"))
         THEN "(mine) The node is currently mining."
         ELSE "(x) The node is not mining.")

getHashrate(a, r) ==
    Text("(mine) Current Mining Hashrate: "
         \o NumberToStr(parseInt16(Get(r, "result"))) \o " H/s")

\* x ? f(BigInt(x)) : fallback throws when x is truthy and no BigInt literal
BigIntThrows(j) == Truthy(j) /\ ~BigInt(j).ok

\* tx.value ? `${formatEth(BigInt(tx.value))} ETH` : "0 ETH"
TxValue(tx) ==
    IF Truthy(Get(tx, "value"))
    THEN formatEth(BigInt(Get(tx, "value")).n) \o " ETH" ELSE "0 ETH"

\* tx.gasPrice ? `${formatGwei(BigInt(tx.gasPrice))} Gwei` : "N/A"
GweiOrNA(j) == IF Truthy(j) THEN formatGwei(BigInt(j).n) \o " Gwei" ELSE "N/A"

\* the block number tested after parsing: block 0 counts as absent
BlockNumberOrPendingByValue(tx) ==
    LET n == parseInt16(Get(tx, "blockNumber"))
    IN  IF ~n.nan /\ n.n # <<>> THEN NumberToStr(n) ELSE "Pending"

\* tx.blockNumber ? parseInt(tx.blockNumber, 16) : "Pending"
BlockNumberOrPending(tx) ==
    IF Truthy(Get(tx, "blockNumber"))
    THEN NumberToStr(parseInt16(Get(tx, "blockNumber"))) ELSE "Pending"

HexField(tx, f) == NumberToStr(parseInt16(Get(tx, f)))
ToOrCreation(tx) == ToStr(OrElse(Get(tx, "to"), Str("Contract Creation")))
InputOrEmpty(tx) == ToStr(OrElse(Get(tx, "input"), Str("0x")))
TxThrows(tx) == BigIntThrows(Get(tx, "value")) \/ BigIntThrows(Get(tx, "gasPrice"))

getTransaction(a, r) ==
    LET tx == Get(r, "result")
    IN  IF ~Truthy(tx) THEN Text("Transaction not found")
        ELSE IF TxThrows(tx) THEN Thrown
        ELSE Text("Transaction Details:"
                  \o Indent16 \o "Hash: " \o ToStr(Get(tx, "hash"))
                  \o Indent16 \o "Block: " \o BlockNumberOrPending(tx)
                  \o Indent16 \o "From: " \o ToStr(Get(tx, "from"))
                  \o Indent16 \o "To: " \o ToOrCreation(tx)
                  \o Indent16 \o "Value: " \o TxValue(tx)
                  \o Indent16 \o "Gas: " \o HexField(tx, "gas")
                  \o Indent16 \o "Gas Price: " \o GweiOrNA(Get(tx, "gasPrice"))
                  \o Indent16 \o "Nonce: " \o HexField(tx, "nonce")
                  \o Indent16 \o "Input Data: " \o InputOrEmpty(tx))

getTransactionByBlock(a, r) ==
    LET tx == Get(r, "result")
    IN  IF ~Truthy(tx)
        THEN Text("Transaction not found at specified block position")
        ELSE IF TxThrows(tx) THEN Thrown
        ELSE Text("Transaction Details:"
                  \o Indent16 \o "Hash: " \o ToStr(Get(tx, "hash"))
                  \o Indent16 \o "Block Number: " \o HexField(tx, "blockNumber")
                  \o Indent16 \o "Block Hash: " \o ToStr(Get(tx, "blockHash"))
                  \o Indent16 \o "Position in Block: "
                  \o HexField(tx, "transactionIndex")
                  \o Indent16 \o "From: " \o ToStr(Get(tx, "from"))
                  \o Indent16 \o "To: " \o ToOrCreation(tx)
                  \o Indent16 \o "Value: " \o TxValue(tx)
                  \o Indent16 \o "Gas: " \o HexField(tx, "gas")
                  \o Indent16 \o "Gas Price: " \o GweiOrNA(Get(tx, "gasPrice"))
                  \o Indent16 \o "Nonce: " \o HexField(tx, "nonce")
                  \o Indent16 \o "Input Data: " \o InputOrEmpty(tx))

BlockHashOrPending(tx) == ToStr(OrElse(Get(tx, "blockHash"), Str("Pending")))

getTransactionByBlockNumber(a, r) ==
    LET tx == Get(r, "result")
    IN  IF ~Truthy(tx)
        THEN Text("Transaction not found at specified block position")
        ELSE IF TxThrows(tx) THEN Thrown
        ELSE Text("Transaction Details:"
                  \o Indent14 \o "Hash: " \o ToStr(Get(tx, "hash"))
                  \o Indent14 \o "Block Number: " \o BlockNumberOrPending(tx)
                  \o Indent14 \o "Block Hash: " \o BlockHashOrPending(tx)
                  \o Indent14 \o "Position in Block: "
                  \o HexField(tx, "transactionIndex")
                  \o Indent14 \o "From: " \o ToStr(Get(tx, "from"))
                  \o Indent14 \o "To: " \o ToOrCreation(tx)
                  \o Indent14 \o "Value: " \o TxValue(tx)
                  \o Indent14 \o "Gas: " \o HexField(tx, "gas")
                  \o Indent14 \o "Gas Price: " \o GweiOrNA(Get(tx, "gasPrice"))
                  \o Indent14 \o "Nonce: " \o HexField(tx, "nonce")
                  \o Indent14 \o "Input Data: " \o InputOrEmpty(tx))

getTransactionByBlockNumberIndex(a, r) ==
    LET tx == Get(r, "result")
    IN  IF ~Truthy(tx)
        THEN Text("No transaction found at the specified block position")
        ELSE IF TxThrows(tx) THEN Thrown
        ELSE Text("Transaction Details:"
                  \o Indent14 \o "Status: "
                  \o (IF Truthy(Get(tx, "blockNumber"))
                      THEN "Confirmed" ELSE "Pending")
                  \o Indent14 \o "Hash: " \o ToStr(Get(tx, "hash"))
                  \o Indent14 \o "Block Number: " \o BlockNumberOrPending(tx)
                  \o Indent14 \o "Block Hash: " \o BlockHashOrPending(tx)
                  \o Indent14 \o "From: " \o ToStr(Get(tx, "from"))
                  \o Indent14 \o "To: " \o ToOrCreation(tx)
                  \o Indent14 \o "Value: " \o TxValue(tx)
                  \o Indent14 \o "Gas Limit: " \o HexField(tx, "gas")
                  \o Indent14 \o "Gas Price: " \o GweiOrNA(Get(tx, "gasPrice"))
                  \o Indent14 \o "Nonce: " \o HexField(tx, "nonce")
                  \o Indent14 \o "Position in Block: "
                  \o HexField(tx, "transactionIndex")
                  \o Indent14 \o "Input Data: " \o InputOrEmpty(tx))

\* log.topics.join(sep) throws unless log is an object and topics an array
LogThrows(log) == Nullish(log) \/ Get(log, "topics").t # "arr"

\* `Log ${index}: ${log.data} (Topics: ${log.topics.join(", ")})`
ReceiptLogLine(log, index) ==
    "Log " \o BigToString(IntToBig(index)) \o ": " \o ToStr(Get(log, "data"))
    \o " (Topics: " \o Join(ElementStrings(Get(log, "topics").v), ", ") \o ")"

getTransactionReceipt(a, r) ==
    LET txReceipt == Get(r, "result")
        logs == Get(txReceipt, "logs")
    IN  IF ~Truthy(txReceipt)
        THEN Text("Transaction receipt not found (transaction may be pending or failed)")
        ELSE IF \/ BigIntThrows(Get(txReceipt, "effectiveGasPrice"))
                \/ logs.t # "arr"
                \/ \E i \in 1..Len(logs.v) : LogThrows(logs.v[i])
        THEN Thrown
        ELSE Text("Transaction Receipt Details:"
                  \o Indent14 \o "Status: "
                  \o (IF Truthy(Get(txReceipt, "status"))
                      THEN "Success" ELSE "Failed")
                  \o Indent14 \o "Block Number: "
                  \o HexField(txReceipt, "blockNumber")
                  \o Indent14 \o "Block Hash: "
                  \o ToStr(Get(txReceipt, "blockHash"))
                  \o Indent14 \o "Transaction Hash: "
                  \o ToStr(Get(txReceipt, "transactionHash"))
                  \o Indent14 \o "Gas Used: " \o HexField(txReceipt, "gasUsed")
                  \o Indent14 \o "Cumulative Gas Used: "
                  \o HexField(txReceipt, "cumulativeGasUsed")
                  \o Indent14 \o "Effective Gas Price: "
                  \o GweiOrNA(Get(txReceipt, "effectiveGasPrice"))
                  \o Indent14 \o "Contract Address: "
                  \o ToStr(OrElse(Get(txReceipt, "contractAddress"), Str("N/A")))
                  \o Indent14 \o "Logs: "
                  \o Join([i \in 1..Len(logs.v) |->
                              ReceiptLogLine(logs.v[i], i - 1)], Indent16))

IntStr(n) == BigToString(IntToBig(n))

\* x.length for a JSON value x that is not null or undefined
LengthStr(j) ==
    IF j.t = "arr" THEN IntStr(Len(j.v))
    ELSE IF j.t = "str" THEN IntStr(Len(j.v))
    ELSE "undefined"

\* one element of proof.storageProof
StorageProofEntry(storage, index) ==
    "\nStorage Key " \o IntStr(index) \o ": " \o ToStr(Get(storage, "key"))
    \o "\nValue: " \o ToStr(Get(storage, "value"))
    \o "\nProof Length: " \o LengthStr(Get(storage, "proof")) \o " nodes"

getProof(a, r) ==
    LET proof == Get(r, "result")
        accountProof == Get(proof, "accountProof")
        storageProof == Get(proof, "storageProof")
        balance == BigInt(Get(proof, "balance"))
    IN  IF \/ Nullish(proof)
           \/ accountProof.t # "arr"
           \/ ~balance.ok
           \/ storageProof.t # "arr"
           \/ \E i \in 1..Len(storageProof.v) :
                 \/ Nullish(storageProof.v[i])
                 \/ Nullish(Get(storageProof.v[i], "proof"))
        THEN Thrown
        ELSE Text("Account Proof for " \o ToStr(a.address) \o " (block "
                  \o BlockOf(a) \o "):\n\n"
                  \o "Account Proof: "
                  \o Join([i \in 1..Len(accountProof.v) |->
                              ToStr(accountProof.v[i])], "\n") \o "\n\n"
                  \o "Balance: " \o formatEth(balance.n) \o "\n"
                  \o "Nonce: " \o HexField(proof, "nonce") \o "\n"
                  \o "Code Hash: " \o ToStr(Get(proof, "codeHash")) \o "\n"
                  \o "Storage Hash: " \o ToStr(Get(proof, "storageHash")) \o "\n\n"
                  \o "Storage Proofs:\n"
                  \o Join([i \in 1..Len(storageProof.v) |->
                              StorageProofEntry(storageProof.v[i], i)], "\n")
                  \o "\n\n"
                  \o "Account Proof Length: " \o IntStr(Len(accountProof.v))
                  \o " nodes")

\* (ratio * 100).toFixed(2) for the ratios the model draws: whole numbers
PercentFixed2(ratio) ==
    CASE ratio.t = "num" -> IntStr(ratio.v * 100) \o ".00"
      [] ratio.t = "null" -> "0.00"
      [] OTHER -> "NaN"

\* one row of history.reward
RewardRow(rewards, index, rewardPercentiles) ==
    "Block " \o IntStr(index) \o ":\n"
    \o Join([k \in 1..Len(rewards.v) |->
                "  " \o (IF k <= Len(rewardPercentiles.v)
                         THEN ToStr(rewardPercentiles.v[k]) ELSE "undefined")
                \o "th: " \o formatGwei(BigInt(rewards.v[k]).n)], "\n")

getFeeHistory(a, r) ==
    LET history == Get(r, "result")
        baseFeePerGas == Get(history, "baseFeePerGas")
        gasUsedRatio == Get(history, "gasUsedRatio")
        reward == Get(history, "reward")
    IN  IF \/ Nullish(history)
           \/ baseFeePerGas.t # "arr"
           \/ \E i \in 1..Len(baseFeePerGas.v) : ~BigInt(baseFeePerGas.v[i]).ok
           \/ gasUsedRatio.t # "arr"
           \/ reward.t # "arr"
           \/ \E i \in 1..Len(reward.v) :
                 \/ reward.v[i].t # "arr"
                 \/ \E k \in 1..Len(reward.v[i].v) : ~BigInt(reward.v[i].v[k]).ok
        THEN Thrown
        ELSE Text("Fee History (" \o ToStr(a.blockCount) \o " blocks ending at "
                  \o ToStr(a.newestBlock) \o "):\n\n"
                  \o "Oldest Block: " \o HexField(history, "oldestBlock") \o "\n\n"
                  \o "Base Fee Per Gas:\n"
                  \o Join([i \in 1..Len(baseFeePerGas.v) |->
                              "Block " \o IntStr(i) \o ": "
                              \o formatGwei(BigInt(baseFeePerGas.v[i]).n)], "\n")
                  \o "\n\n"
                  \o "Gas Used Ratio:\n"
                  \o Join([i \in 1..Len(gasUsedRatio.v) |->
                              "Block " \o IntStr(i) \o ": "
                              \o PercentFixed2(gasUsedRatio.v[i]) \o "%"], "\n")
                  \o "\n\n"
                  \o "Reward Percentiles ("
                  \o Join(ElementStrings(a.rewardPercentiles.v), ", ") \o "):\n"
                  \o Join([i \in 1..Len(reward.v) |->
                              RewardRow(reward.v[i], i, a.rewardPercentiles)],
                          "\n\n"))

\* one content block of get-logs
LogBlock(log, idx) ==
    "Log " \o IntStr(idx) \o ":\nBlock: " \o ToStr(Get(log, "blockNumber"))
    \o "\nTxHash: " \o ToStr(Get(log, "transactionHash"))
    \o "\nTopics: " \o Join(ElementStrings(Get(log, "topics").v), ", ")
    \o "\nData: " \o ToStr(Get(log, "data"))

\* the handler without its test for an empty array: map() over no logs
getLogsWithoutEmptyTest(a, r) ==
    LET res == Get(r, "result")
    IN  IF Nullish(res) THEN Thrown
        ELSE IF res.t # "arr" \/ \E i \in 1..Len(res.v) : LogThrows(res.v[i])
        THEN Thrown
        ELSE Blocks([i \in 1..Len(res.v) |-> LogBlock(res.v[i], i)])

getLogs(a, r) ==
    LET res == Get(r, "result")
    IN  IF Nullish(res) THEN Thrown
        ELSE IF res.t \in {"arr", "str"} /\ Len(res.v) = 0
        THEN Text("No logs found for address " \o ToStr(a.address)
                  \o " from block " \o ToStr(a.fromBlock) \o " to "
                  \o ToStr(a.toBlock) \o ".")
        ELSE IF res.t # "arr" \/ \E i \in 1..Len(res.v) : LogThrows(res.v[i])
        THEN Thrown
        ELSE Blocks([i \in 1..Len(res.v) |-> LogBlock(res.v[i], i)])

\* the order in which a log object's members are printed
LogKeyOrder == <<"address", "topics", "data", "blockNumber", "transactionHash">>

RECURSIVE Stringify(_, _)
\* JSON.stringify(x, null, 2) with the current indentation pad
Stringify(j, pad) ==
    CASE j.t = "str" -> "\"" \o j.v \o "\""
      [] j.t = "num" -> IntStr(j.v)
      [] j.t = "bool" -> IF j.v THEN "true" ELSE "false"
      [] j.t = "arr" ->
            IF j.v = <<>> THEN "[]"
            ELSE "[\n" \o Join([i \in 1..Len(j.v) |->
                                   pad \o "  " \o Stringify(j.v[i], pad \o "  ")],
                               ",\n") \o "\n" \o pad \o "]"
      [] j.t = "obj" ->
            LET keys == SelectSeq(LogKeyOrder, LAMBDA k : k \in DOMAIN j.v)
            IN  IF keys = <<>> THEN "{}"
                ELSE "{\n" \o Join([i \in 1..Len(keys) |->
                                       pad \o "  \"" \o keys[i] \o "\": "
                                       \o Stringify(j.v[keys[i]], pad \o "  ")],
                                   ",\n") \o "\n" \o pad \o "}"
      [] OTHER -> "null"

\* get-filter-changes and get-filter-logs after the failure branch
FilterPoll(a, r, none, label) ==
    LET items == OrElse(Get(r, "result"), Arr(<<>>))
    IN  IF items.t = "arr" /\ Len(items.v) = 0
        THEN Text(none \o ToStr(a.filterId) \o ".")
        ELSE IF items.t # "arr" THEN Thrown
        ELSE Blocks([i \in 1..Len(items.v) |->
                        label \o IntStr(i) \o ":\n" \o Stringify(items.v[i], "")])

getFilterChanges(a, r) ==
    FilterPoll(a, r, "No changes found for filter ID ", "Change ")

getFilterLogs(a, r) == FilterPoll(a, r, "No logs found for filter ID ", "Log ")

\* the handler's code after its failure branch
SuccessResult(t, a, r) ==
    CASE t = "get-balance" -> getBalance(a, r)
      [] t = "get-contract-code" -> getContractCode(a, r)
      [] t = "get-storage-at" -> getStorageAt(a, r)
      [] t = "get-proof" -> getProof(a, r)
      [] t = "get-block-number" -> getBlockNumber(a, r)
      [] t = "get-gas-price" -> getGasPrice(a, r)
      [] t = "get-fee-history" -> getFeeHistory(a, r)
      [] t = "get-max-priority-fee" -> getMaxPriorityFee(a, r)
      [] t = "get-transaction" -> getTransaction(a, r)
      [] t = "get-transaction-by-block" -> getTransactionByBlock(a, r)
      [] t = "get-transaction-by-block-number" ->
            getTransactionByBlockNumber(a, r)
      [] t = "get-transaction-by-block-number-index" ->
            getTransactionByBlockNumberIndex(a, r)
      [] t = "get-transaction-receipt" -> getTransactionReceipt(a, r)
      [] t = "send-raw-transaction" -> sendRawTransaction(a, r)
      [] t = "call-contract" -> callContract(a, r)
      [] t = "estimate-gas" -> estimateGas(a, r)
      [] t = "get-logs" -> getLogs(a, r)
      [] t = "get-new-filter" -> getNewFilter(a, r)
      [] t = "get-new-block-filter" -> getNewBlockFilter(a, r)
      [] t = "get-new-pending-tran-filter" -> getNewPendingTranFilter(a, r)
      [] t = "get-filter-changes" -> getFilterChanges(a, r)
      [] t = "get-filter-logs" -> getFilterLogs(a, r)
      [] t = "uninstall-filter" -> uninstallFilter(a, r)
      [] t = "submit-proof-of-work" -> submitProofOfWork(a, r)
      [] t = "get-client-version" -> getClientVersion(a, r)
      [] t = "get-sha3-hash" -> getSha3Hash(a, r)
      [] t = "get-chain-id" -> getChainId(a, r)
      [] t = "get-network-id" -> getNetworkId(a, r)
      [] t = "is-network-listening" -> isNetworkListening(a, r)
      [] t = "get-peer-count" -> getPeerCount(a, r)
      [] t = "get-sync-status" -> getSyncStatus(a, r)
      [] t = "is-mining" -> isMining(a, r)
      [] t = "get-hashrate" -> getHashrate(a, r)

\* a handler from the point where makeEthRpcRequest has resolved to r
HandlerResult(t, a, r) ==
    IF Failed(t, r) THEN FailureResult(t, a, r) ELSE SuccessResult(t, a, r)

\* get-sha3-hash returns before any request when the helper says "invalid"
ReturnsBeforeRequest(t, a) ==
    t = "get-sha3-hash" /\ checkValidHexadecimal(ToStr(a.data))

-----------------------------------------------------------------------------
(* The inputs the model draws: what callers pass and what the node and the *)
(* network answer.                                                         *)

Zero24 == "000000000000000000000000"
Ones24 == "ffffffffffffffffffffffff"
GoodAddress == Str("0x" \o "52908400098527886e0f7030069857d2e4169ee7")
NonHexAddress == Str("0x" \o "zzzzzzzzzzzzzzzzzzzzzzzzzzzzzzzzzzzzzzzz")
NoPrefixAddress == Str("52908400098527886e0f7030069857d2e4169ee7ab")
GoodHash == Str("0x" \o Ones24 \o Zero24 \o "0123456789abcdef")
NonHexHash == Str("0x" \o Ones24 \o Zero24 \o "0123456789abcdeg")
GoodRawTransaction == Str("0xf8" \o Ones24 \o Zero24 \o "0123456789abcdef")

AddressArgs == {GoodAddress, NonHexAddress, NoPrefixAddress, Str("0x1234"), Undef}
BlockArgs == {Undef, Latest, Str("0x10"), Str("finalized"), Str("foo"), Str(""), Num(16)}
RefinedBlockArgs ==
    {Latest, Str("earliest"), Str("pending"), Str("0x10"), Str("safe"),
     Str("foo"), Str("0x"), Undef}
IndexArgs == {Str("0x0"), Str("0x"), Str("1")}
HashArgs == {GoodHash, NonHexHash, Str("0x1234"), Undef}

CallObjects ==
    {Obj([to |-> GoodAddress, data |-> Str("0x70a08231")]),
     Obj([to |-> GoodAddress, data |-> Str("0x"), from |-> GoodAddress,
          value |-> Str("0x1")]),
     Obj([to |-> GoodAddress, data |-> Str("0x"), from |-> GoodAddress,
          note |-> Str("extra")]),
     Obj([to |-> Str("0x1234"), data |-> Str("0x"), from |-> GoodAddress]),
     Obj([to |-> GoodAddress, data |-> Str("0xzz"), from |-> GoodAddress]),
     Obj([to |-> GoodAddress, data |-> Str("0x"), from |-> GoodAddress,
          gas |-> Str("0x")]),
     Str("0x70a08231")}

\* the argument objects callers pass to tool t, valid and invalid ones
ArgSpace(t) ==
    CASE t \in AddressTools ->
            [address : AddressArgs, blockNumber : BlockArgs]
      [] t = "get-storage-at" ->
            [address : {GoodAddress, Str("0x1234")},
             position : {Str("0x0"), Str("1")},
             blockNumber : {Undef, Str("0x10")}]
      [] t = "get-proof" ->
            [address : {GoodAddress, Str("0x1234")},
             storageKeys : {Arr(<<>>), Arr(<<Str("0x0")>>), Str("0x0")},
             blockNumber : {Undef, Str("finalized")}]
      [] t = "get-fee-history" ->
            [blockCount : {Num(0), Num(1), Num(4), Num(1024), Num(1025), Str("4"),
                           NumAndHalf(1), NumAndHalf(1024)},
             newestBlock : {Latest, Undef},
             rewardPercentiles : {Arr(<<>>), Arr(<<Num(25), Num(75)>>)}]
      [] t \in TransactionHashTools -> [transactionHash : HashArgs]
      [] t = "get-transaction-by-block" ->
            [blockHash : HashArgs, transactionIndex : IndexArgs]
      [] t \in BlockNumberIndexTools ->
            [blockNumber : RefinedBlockArgs, transactionIndex : IndexArgs]
      [] t = "send-raw-transaction" ->
            [rawTransaction : {GoodRawTransaction, GoodHash, Str("0x1234"),
                               NonHexHash, Undef}]
      [] t = "call-contract" ->
            [callData : CallObjects, block : RefinedBlockArgs]
      [] t = "estimate-gas" ->
            [transaction : CallObjects, block : RefinedBlockArgs]
      [] t \in LogFilterTools ->
            [fromBlock : {Undef, Str("0x1"), Str("foo")},
             toBlock : {Undef, Latest},
             address : {GoodAddress, Str("0x1234")},
             topics : {Undef, Arr(<<GoodHash>>), Arr(<<Num(1)>>)}]
      [] t \in FilterIdTools ->
            [filterId : {Str("0x1"), Str("0xabc"), Str(""), Undef}]
      [] t = "submit-proof-of-work" ->
            [nonce : {Str("0x0000000000000001"), Str("")},
             hash : {GoodHash, Undef},
             digest : {GoodHash, Str("")}]
      [] t = "get-sha3-hash" ->
            [data : {Str("0x68656c6c6f"), Str("0x"), Str("0X12"), Str("hello"),
                     Str("0xzz"), Str(""), Undef}]
      [] t \in NoArgumentTools -> {<<>>}

\* 32-byte words: three segments, each all zero, all ones or a small number
WordHigh == {Zero24, Ones24, "000000000000000000000001"}
WordMiddle == {Zero24, Ones24, "000000000000000000000001"}
WordLow == {"0000000000000000", "0000000000000001", "0000000000000002",
            "ffffffffffffffff"}
Words == {Str("0x" \o h \o m \o l) : h \in WordHigh, m \in WordMiddle, l \in WordLow}

LongBytes ==
    Str("0x" \o Ones24 \o Zero24 \o Ones24 \o Zero24 \o Ones24 \o Zero24 \o "abcdef")

CallResults ==
    Words \cup
    {Undef, JNull, Str(""), Str("0x"), Str("0x1234"), Str("1234"), LongBytes,
     Str("0x" \o Zero24 \o Zero24 \o "000000000000001"),
     Str("0x" \o Zero24 \o Zero24 \o "00000000000000001"),
     Str(Zero24 \o Zero24 \o "0000000000000001"),
     Str("0x" \o Zero24 \o Ones24 \o "00000000000000zz"),
     Num(5), Bool(TRUE)}

QuantityResults ==
    {Undef, JNull, Str(""), Str("0x"), Str("0x0"), Str("0x1"), Str("0x5208"),
     Str("0xde0b6b3a7640000"), Str("0x1bc16d674ec80000"), Str("latest"),
     Num(5), Bool(FALSE)}

\* a quantity of 88 bits, wider than a double's significand
WideQuantity == Str("0xffffffffffffffffffffff")
\* 100000000.123456789 ETH in wei
LargeBalance == Str("0x52b7d2de7ea81e89749200")
BigIntResults == QuantityResults \cup {WideQuantity, LargeBalance}

StringResults == {Undef, JNull, Str(""), Str("0xabc"), GoodHash, Num(1)}
BooleanResults == {Undef, JNull, Bool(TRUE), Bool(FALSE), Str("0x1")}

MinedTransaction ==
    Obj([hash |-> GoodHash, blockNumber |-> Str("0x10"), blockHash |-> GoodHash,
         transactionIndex |-> Str("0x0"), from |-> GoodAddress,
         to |-> GoodAddress, value |-> Str("0xde0b6b3a7640000"),
         gas |-> Str("0x5208"), gasPrice |-> Str("0x4a817c800"),
         nonce |-> Str("0x0"), input |-> Str("0x")])
PendingCreation ==
    Obj([hash |-> GoodHash, blockNumber |-> JNull, blockHash |-> JNull,
         transactionIndex |-> JNull, from |-> GoodAddress, to |-> JNull,
         value |-> Str("0x0"), gas |-> Str("0x0"), nonce |-> Str("0x1"),
         input |-> Str("0x6080")])
\* a transaction whose quantities are all zero
ZeroTransaction ==
    Obj([hash |-> GoodHash, blockNumber |-> Str("0x0"), blockHash |-> GoodHash,
         transactionIndex |-> Str("0x0"), from |-> GoodAddress,
         to |-> GoodAddress, value |-> Str("0x0"), gas |-> Str("0x0"),
         gasPrice |-> Str("0x0"), nonce |-> Str("0x0"), input |-> Str("0x")])
TransactionResults ==
    {Undef, JNull, MinedTransaction, PendingCreation, ZeroTransaction,
     Obj([hash |-> GoodHash, value |-> Str("0x"), gas |-> Str("0x5208")]),
     Str("0xabc")}

Log1 ==
    Obj([address |-> GoodAddress, topics |-> Arr(<<GoodHash>>),
         data |-> Str("0x01"), blockNumber |-> Str("0x10"),
         transactionHash |-> GoodHash])
Log2 ==
    Obj([address |-> GoodAddress, topics |-> Arr(<<>>), data |-> Str("0x"),
         blockNumber |-> Str("0x11"), transactionHash |-> GoodHash])
Receipt(status, logs) ==
    Obj([status |-> status, blockNumber |-> Str("0x10"), blockHash |-> GoodHash,
         transactionHash |-> GoodHash, gasUsed |-> Str("0x5208"),
         cumulativeGasUsed |-> Str("0xa410"),
         effectiveGasPrice |-> Str("0x4a817c800"), contractAddress |-> JNull,
         logs |-> logs])
ReceiptResults ==
    {Undef, JNull, Receipt(Str("0x1"), Arr(<<Log1, Log2>>)),
     Receipt(Str("0x0"), Arr(<<>>)), Receipt(Str("0x1"), Undef),
     Obj([blockNumber |-> Str("0x10"), logs |-> Arr(<<>>)])}

Proof(storageProof) ==
    Obj([accountProof |-> Arr(<<Str("0xf90211"), Str("0xf90151")>>),
         balance |-> Str("0xde0b6b3a7640000"), nonce |-> Str("0x0"),
         codeHash |-> GoodHash, storageHash |-> GoodHash,
         storageProof |-> storageProof])
ProofResults ==
    {Undef, JNull, Proof(Arr(<<>>)),
     Proof(Arr(<<Obj([key |-> Str("0x0"), value |-> Str("0x1"),
                      proof |-> Arr(<<Str("0xe3")>>)])>>)),
     Proof(Arr(<<Obj([key |-> Str("0x0"), value |-> Str("0x0")])>>)),
     Obj([balance |-> Str("0x0"), nonce |-> Str("0x0")])}

FeeHistory(reward) ==
    Obj([oldestBlock |-> Str("0x10"),
         baseFeePerGas |-> Arr(<<Str("0x4a817c800"), Str("0x0")>>),
         gasUsedRatio |-> Arr(<<Num(1)>>),
         reward |-> reward])
FeeHistoryResults ==
    {Undef, JNull,
     FeeHistory(Arr(<<Arr(<<Str("0x3b9aca00"), Str("0x77359400")>>)>>)),
     FeeHistory(Arr(<<Arr(<<>>)>>)), FeeHistory(Undef)}

ArrayResults ==
    {Undef, JNull, Str(""), Str("0xabc"), Arr(<<>>), Arr(<<Log1>>),
     Arr(<<Log1, Log2>>), Arr(<<Log2, Log1>>), Arr(<<GoodHash, Str("0x01")>>),
     Arr(<<JNull>>)}

SyncResults ==
    {Undef, JNull, Bool(FALSE), Bool(TRUE),
     Obj([startingBlock |-> Str("0x0"), currentBlock |-> Str("0x10"),
          highestBlock |-> Str("0x5208")]),
     Obj([currentBlock |-> Str("0x10")])}

\* the result members the node may answer tool t with (Undef: no member)
Results(t) ==
    CASE t = "call-contract" -> CallResults
      [] t \in {"get-balance", "get-block-number", "get-gas-price",
                "get-max-priority-fee"} -> BigIntResults
      [] t \in {"estimate-gas", "get-chain-id", "get-peer-count",
                "get-hashrate"} -> QuantityResults
      [] t \in {"get-transaction", "get-transaction-by-block"}
            \cup BlockNumberIndexTools -> TransactionResults
      [] t = "get-transaction-receipt" -> ReceiptResults
      [] t = "get-proof" -> ProofResults
      [] t = "get-fee-history" -> FeeHistoryResults
      [] t \in {"get-logs", "get-filter-changes", "get-filter-logs"} ->
            ArrayResults
      [] t \in {"uninstall-filter", "submit-proof-of-work",
                "is-network-listening", "is-mining"} -> BooleanResults
      [] t = "get-sync-status" -> SyncResults
      [] OTHER -> StringResults

\* pieces of node error messages, put together in every order
MessageFragments ==
    {"execution ", "reverted: ", "0x", "08c379a0", "g", "reverted: 0xdeadBEEF"}
MaxFragments == 3

RECURSIVE MessagesOfLength(_)
MessagesOfLength(n) ==
    IF n = 0 THEN {""}
    ELSE {m \o f : m \in MessagesOfLength(n - 1), f \in MessageFragments}

RevertMessages == UNION {MessagesOfLength(n) : n \in 0..MaxFragments}

PlainMessages ==
    {"", "Unknown error", "filter not found", "execution reverted: 0xdeadbeef",
     "HTTP error! status: 500", "Invalid solution."}

Messages(t) ==
    IF t \in {"call-contract", "estimate-gas"}
    THEN RevertMessages \cup PlainMessages ELSE PlainMessages

ErrorCode == Num(32000)

\* the error members of a reply: objects with and without a message, and null
Errors(t) ==
    {Obj([code |-> ErrorCode, message |-> Str(m)]) : m \in Messages(t)}
    \cup {Obj([code |-> ErrorCode]), JNull}

\* the JSON bodies the node may answer with
Bodies(t) ==
    {JNull, Obj(<<>>)}
    \cup {Obj([result |-> x]) : x \in Results(t) \ {Undef}}
    \cup {Obj([error |-> e]) : e \in Errors(t)}
    \cup {Obj([result |-> Str("0x1"), error |-> Obj([code |-> ErrorCode,
                                                     message |-> Str("both")])])}

HttpStatuses == {200, 404, 500}

\* what the network does with a request of tool t
Outcomes(t) ==
    {[kind |-> "reject"]}
    \cup {[kind |-> "response", status |-> st, body |-> b] :
            st \in HttpStatuses \ {200},
            b \in {Unparseable, Obj([error |-> Obj([message |-> Str("down")])])}}
    \cup {[kind |-> "response", status |-> 200, body |-> b] :
            b \in Bodies(t) \cup {Unparseable}}

-----------------------------------------------------------------------------
(* The state machine: one tool invocation per slot *)

None == [kind |-> "none"]

Init ==
    /\ live = {"i1"}
    /\ pc = [i \in Invocations |-> "idle"]
    /\ tool = [i \in Invocations |-> ""]
    /\ args = [i \in Invocations |-> <<>>]
    /\ sent = [i \in Invocations |-> <<>>]
    /\ reply = [i \in Invocations |-> None]
    /\ rpcResult = [i \in Invocations |-> Undef]
    /\ result = [i \in Invocations |-> None]

\* the host receives a tool call and parses the arguments with the schema;
\* the handler is called only with arguments that pass
Invoke(i) ==
    /\ pc[i] = "idle"
    /\ \E t \in ToolNames : \E a \in ArgSpace(t) :
          /\ tool' = [tool EXCEPT ![i] = t]
          /\ IF SchemaOk(t, a)
             THEN /\ pc' = [pc EXCEPT ![i] = "handler"]
                  /\ args' = [args EXCEPT ![i] = ParseArgs(t, a)]
                  /\ result' = result
             ELSE /\ pc' = [pc EXCEPT ![i] = "done"]
                  /\ args' = [args EXCEPT ![i] = a]
                  /\ result' = [result EXCEPT ![i] = ValidationError]
    /\ UNCHANGED <<live, sent, reply, rpcResult>>

\* the handler runs to its await: fetch is called with the request
Request(i) ==
    /\ pc[i] = "handler"
    /\ IF ReturnsBeforeRequest(tool[i], args[i])
       THEN /\ pc' = [pc EXCEPT ![i] = "done"]
            /\ result' = [result EXCEPT ![i] = Text(InvalidHexText)]
            /\ sent' = sent
       ELSE /\ pc' = [pc EXCEPT ![i] = "awaiting"]
            /\ sent' = [sent EXCEPT ![i] =
                          Append(@, RpcRequest(RpcMethod(tool[i]),
                                               Params(tool[i], args[i]),
                                               RequestId(tool[i])))]
            /\ result' = result
    /\ UNCHANGED <<live, tool, args, reply, rpcResult>>

\* the request settles and makeEthRpcRequest resolves
Settle(i) ==
    /\ pc[i] = "awaiting"
    /\ \E outcome \in Outcomes(tool[i]) :
          /\ reply' = [reply EXCEPT ![i] = outcome]
          /\ rpcResult' = [rpcResult EXCEPT ![i] = makeEthRpcRequest(outcome)]
          /\ sent' = [sent EXCEPT ![i] =
                        IF outcome.kind = "reject" \/ ~ResponseOk(outcome.status)
                           \/ outcome.body.t = "unparseable"
                        THEN OnRequestError(@) ELSE @]
    /\ pc' = [pc EXCEPT ![i] = "resumed"]
    /\ UNCHANGED <<live, tool, args, result>>

\* a variant in which the reply is kept in one place for all invocations:
\* the handler reads the reply of whichever invocation has resumed
FinishWithSharedReply(i) ==
    /\ pc[i] = "resumed"
    /\ pc' = [pc EXCEPT ![i] = "done"]
    /\ result' = [result EXCEPT ![i] =
                    HandlerResult(tool[i], args[i],
                                  rpcResult[CHOOSE j \in live : pc[j] = "resumed"])]
    /\ UNCHANGED <<live, tool, args, sent, reply, rpcResult>>

\* the handler resumes after the await and returns or throws
Finish(i) ==
    /\ pc[i] = "resumed"
    /\ pc' = [pc EXCEPT ![i] = "done"]
    /\ result' = [result EXCEPT ![i] =
                    HandlerResult(tool[i], args[i], rpcResult[i])]
    /\ UNCHANGED <<live, tool, args, sent, reply, rpcResult>>

\* the host hands the outcome to the caller; the slot is free again
Return(i) ==
    /\ pc[i] = "done"
    /\ pc' = [pc EXCEPT ![i] = "idle"]
    /\ tool' = [tool EXCEPT ![i] = ""]
    /\ args' = [args EXCEPT ![i] = <<>>]
    /\ sent' = [sent EXCEPT ![i] = <<>>]
    /\ reply' = [reply EXCEPT ![i] = None]
    /\ rpcResult' = [rpcResult EXCEPT ![i] = Undef]
    /\ result' = [result EXCEPT ![i] = None]
    /\ UNCHANGED live

Next ==
    \E i \in live :
        \/ Invoke(i)
        \/ Request(i)
        \/ Settle(i)
        \/ Finish(i)
        \/ Return(i)

Spec == Init /\ [][Next]_vars

\* Two invocations in flight at once: the host calls a handler for every
\* tool call it receives, and a handler that awaits its reply leaves the
\* event loop to the other.  The calls are drawn from two tools.
ConcurrentTools == {"uninstall-filter", "get-block-number"}

InitConcurrent ==
    /\ live = Invocations
    /\ pc = [i \in Invocations |-> "idle"]
    /\ tool = [i \in Invocations |-> ""]
    /\ args = [i \in Invocations |-> <<>>]
    /\ sent = [i \in Invocations |-> <<>>]
    /\ reply = [i \in Invocations |-> None]
    /\ rpcResult = [i \in Invocations |-> Undef]
    /\ result = [i \in Invocations |-> None]

NextConcurrent ==
    \E i \in live :
        \/ Invoke(i) /\ tool'[i] \in ConcurrentTools
        \/ Request(i)
        \/ Settle(i)
        \/ Finish(i)
        \/ Return(i)

SpecConcurrent == InitConcurrent /\ [][NextConcurrent]_vars

-----------------------------------------------------------------------------
(* Properties *)

Finished(i) == pc[i] = "done"

\* the HTTP round trip failed: fetch rejected, a status outside 2xx, or a
\* body that is not JSON
TransportFailure(o) ==
    \/ o.kind = "reject"
    \/ o.kind = "response" /\ (~ResponseOk(o.status) \/ o.body.t = "unparseable")

\* the node answered 200 with a JSON body
JsonReply(o) ==
    o.kind = "response" /\ ResponseOk(o.status) /\ o.body.t # "unparseable"

\* the node answered with an error object
ErrorReply(o) == JsonReply(o) /\ Truthy(Get(o.body, "error"))

\* a reply the handler takes down its success path
SuccessReply(o) ==
    JsonReply(o) /\ Truthy(o.body) /\ ~Truthy(Get(o.body, "error"))

IsText(res) == res.kind = "content" /\ Len(res.content) = 1

\* C1: for every tool, when the HTTP round trip fails (fetch rejects, the
\* status is not 2xx, or the body is not JSON), the invocation returns a text
\* result and no exception leaves the handler.
C1_TransportFailureIsText ==
    \A i \in Invocations :
        Finished(i) /\ TransportFailure(reply[i]) =>
            /\ result[i] # Thrown
            /\ IsText(result[i])
            /\ StartsWith(result[i].content[1], FailurePrefix(tool[i], args[i]))

C1_Witness ==
    \E i \in Invocations :
        /\ Finished(i)
        /\ tool[i] = "get-proof"
        /\ reply[i].kind = "response" /\ reply[i].status = 500
        /\ result[i] = Text("Failed to retrieve proof: Unknown error")

\* C2: for every tool, when the node answers with a non-2xx HTTP status, the
\* text returned to the caller contains that status code; "Unknown error" is
\* returned only when neither a status nor a message is available.
C2_StatusInText ==
    \A i \in Invocations :
        Finished(i) /\ reply[i].kind = "response" /\ ~ResponseOk(reply[i].status) =>
            /\ IsText(result[i])
            /\ Contains(result[i].content[1], IntStr(reply[i].status))
            /\ ~Contains(result[i].content[1], "Unknown error")

\* C3: for every tool, an HTTP 200 reply whose JSON body has neither a result
\* nor an error member is reported as a failure and never rendered through
\* the success path.
C3_EmptyReplyIsFailure ==
    \A i \in Invocations :
        /\ Finished(i)
        /\ JsonReply(reply[i])
        /\ reply[i].body = Obj(<<>>)
        => /\ IsText(result[i])
           /\ StartsWith(result[i].content[1], FailurePrefix(tool[i], args[i]))

\* C4: for every tool, the text produced for an RPC error reply differs from
\* the text the same invocation produces for a transport failure, and both
\* differ from a validation failure.
C4_ErrorKindsDistinct ==
    \A i \in Invocations :
        Finished(i) /\ ErrorReply(reply[i]) =>
            /\ result[i] # HandlerResult(tool[i], args[i], JNull)
            /\ result[i] # ValidationError
            /\ result[i] # Text(InvalidHexText)

\* the caller's arguments fail a validator: the schema, or get-sha3-hash's
\* own test that data is 0x followed by hex digits
ArgumentsRejected(i) ==
    \/ ~SchemaOk(tool[i], args[i])
    \/ tool[i] = "get-sha3-hash" /\ ~HexStar(args[i].data.v)

\* C5: validation precedes network I/O: if any argument fails its validator,
\* no HTTP request is issued in that invocation and a validation error is
\* returned.
C5_ValidationBeforeRequest ==
    \A i \in Invocations :
        pc[i] # "idle" /\ ArgumentsRejected(i) =>
            /\ sent[i] = <<>>
            /\ reply[i] = None
            /\ Finished(i) => result[i] \in {ValidationError, Text(InvalidHexText)}

C5_Witness ==
    \E i \in Invocations :
        /\ Finished(i)
        /\ tool[i] = "get-sha3-hash"
        /\ args[i].data = Str("hello")
        /\ result[i] = Text(InvalidHexText)
        /\ sent[i] = <<>>

\* C6: every invocation issues at most one HTTP request and never retries;
\* the result is produced only after that request has settled.
C6_AtMostOneRequest ==
    \A i \in Invocations :
        /\ Len(sent[i]) <= 1
        /\ reply[i] # None => Len(sent[i]) = 1
        /\ result[i] # None /\ sent[i] # <<>> => reply[i] # None
        /\ result[i] # None => Finished(i)

C6_Witness ==
    \E i \in Invocations :
        /\ Finished(i)
        /\ TransportFailure(reply[i])
        /\ Len(sent[i]) = 1
        /\ sent[i][1].body.method = "eth_getBalance"

\* a reply of eth_call that the call-contract handler decodes
CallDecoded(i) ==
    /\ Finished(i)
    /\ tool[i] = "call-contract"
    /\ SuccessReply(reply[i])
    /\ Get(reply[i].body, "result").t = "str"

\* the result of such a reply is one 32-byte word: 0x and 64 hex digits
WordResult(i) == CallDecoded(i) /\ Hex64(Get(reply[i].body, "result").v)

\* the 64 hex digits of the word
WordOf(i) == SliceFrom(Get(reply[i].body, "result").v, 2)

\* C7: a 32-byte result word is rendered as an address if and only if its
\* first 24 hex characters are all zero, and the address is then the last 40
\* hex characters.
C7_AddressIffUpperBytesZero ==
    \A i \in Invocations :
        WordResult(i) =>
            LET upperZero == AllZero(SubSeq(WordOf(i), 1, 24))
                text == result[i].content[1]
            IN  /\ Contains(text, "Decoded: Address: ") <=> upperZero
                /\ upperZero =>
                      Contains(text, "Decoded: Address: 0x"
                                        \o SubSeq(WordOf(i), 25, 64))

\* C8: a 32-byte result word equal to 1 is rendered as the boolean "true",
\* and any nonzero word other than 1 as the fixed string "false".
C8_BooleanWord ==
    \A i \in Invocations :
        WordResult(i) /\ ~AllZero(WordOf(i)) =>
            LET text == result[i].content[1]
            IN  IF AllZero(SubSeq(WordOf(i), 1, 63)) /\ SubSeq(WordOf(i), 64, 64) = "1"
                THEN Contains(text, "Bool: true")
                ELSE Contains(text, "Bool: false")

\* C9: a successful eth_call reply whose result is "0x" always yields the
\* marker "0x (empty)" in the call-contract output and never the "Bytes: "
\* preview.
C9_EmptyResultMarker ==
    \A i \in Invocations :
        CallDecoded(i) /\ Get(reply[i].body, "result").v = "0x" =>
            /\ IsText(result[i])
            /\ Contains(result[i].content[1], "Decoded: 0x (empty)")
            /\ ~Contains(result[i].content[1], "Bytes: ")

C9_Witness ==
    \E i \in Invocations :
        /\ CallDecoded(i)
        /\ Get(reply[i].body, "result") = Str("0x")
        /\ result[i] = Text("Call result:" \o Indent14 \o "Raw hex: 0x"
                            \o Indent14 \o "Decoded: 0x (empty)")

\* the text "reverted: " stands in m at position k
RevertedAt(m, k) == k + 9 <= Len(m) /\ SubSeq(m, k, k + 9) = "reverted: "

\* the pattern reverted: 0x<hex digits> stands in m at position k with a
\* payload of n characters: 0x and the whole run of hex digits that follows
RevertMatch(m, k, n) ==
    /\ RevertedAt(m, k)
    /\ k + 9 + n <= Len(m)
    /\ HexPlus(SubSeq(m, k + 10, k + 9 + n))
    /\ \/ k + 9 + n = Len(m)
       \/ CharAt(m, k + 10 + n) \notin HexDigits

\* the pattern stands in m at position k
RevertAt(m, k) ==
    RevertedAt(m, k) /\ \E n \in 3..(Len(m) - k - 9) : RevertMatch(m, k, n)

\* the pattern stands somewhere in m
HasRevert(m) == \E k \in 1..Len(m) : RevertAt(m, k)

\* k is the leftmost position in m where the pattern stands
FirstRevertAt(m, k) == RevertAt(m, k) /\ \A j \in 1..(k - 1) : ~RevertAt(m, j)

\* an error reply to call-contract or estimate-gas
RevertibleFailure(i) ==
    /\ Finished(i)
    /\ tool[i] \in {"call-contract", "estimate-gas"}
    /\ ErrorReply(reply[i])

\* the message the failure line carries
FailureMessage(i) ==
    LET m == Get(Get(reply[i].body, "error"), "message")
    IN  IF m.t = "str" /\ m.v # "" THEN m.v ELSE "Unknown error"

\* C10: for call-contract and estimate-gas, an error reply whose message
\* contains reverted: 0x<hex digits> yields the failure line with the full
\* message and a line "Revert reason (hex): " with exactly the matched
\* payload; without the pattern the output is the failure line alone.
C10_RevertReasonLine ==
    \A i \in Invocations :
        RevertibleFailure(i) =>
            LET m == FailureMessage(i)
                line == FailurePrefix(tool[i], args[i]) \o m
            IN  /\ IsText(result[i])
                /\ IF HasRevert(m)
                   THEN \E k \in {j \in 1..Len(m) : FirstRevertAt(m, j)} :
                        \E n \in 3..(Len(m) - k - 9) :
                          /\ RevertMatch(m, k, n)
                          /\ result[i].content[1] =
                                line \o "\nRevert reason (hex): "
                                     \o SubSeq(m, k + 10, k + 9 + n)
                   ELSE result[i].content[1] = line

C10_Witness ==
    \E i \in Invocations :
        /\ RevertibleFailure(i)
        /\ tool[i] = "estimate-gas"
        /\ FailureMessage(i) = "execution reverted: 0xdeadBEEFg"
        /\ result[i] = Text("Gas estimation failed: execution reverted: 0xdeadBEEFg"
                            \o "\nRevert reason (hex): 0xdeadBEEF")

\* the node's error object carries a string message
ErrorWithMessage(i) ==
    /\ Finished(i)
    /\ ErrorReply(reply[i])
    /\ Get(Get(reply[i].body, "error"), "message").t = "str"

NodeMessage(i) == Get(Get(reply[i].body, "error"), "message").v

\* C11: for every tool, when the node answers with an error object whose
\* message is m, the returned text is the tool's failure prefix followed by m
\* itself, unchanged and untruncated, for every m (call-contract and
\* estimate-gas may add their revert line after it).
C11_MessageVerbatim ==
    \A i \in Invocations :
        ErrorWithMessage(i) =>
            LET line == FailurePrefix(tool[i], args[i]) \o NodeMessage(i)
            IN  /\ IsText(result[i])
                /\ \/ result[i].content[1] = line
                   \/ /\ tool[i] \in {"call-contract", "estimate-gas"}
                      /\ StartsWith(result[i].content[1],
                                    line \o "\nRevert reason (hex): ")

\* the node's reply went down the handler's success path with this result
Succeeded(i) == Finished(i) /\ SuccessReply(reply[i])
NodeResult(i) == Get(reply[i].body, "result")

\* C12: get-logs, given a success reply whose result is the empty array,
\* returns exactly one content block, which says that no logs were found and
\* names the address, fromBlock and toBlock of the query; it returns neither
\* an empty content list nor the "Failed to fetch logs" text.
C12_EmptyLogsMessage ==
    \A i \in Invocations :
        Succeeded(i) /\ tool[i] = "get-logs" /\ NodeResult(i) = Arr(<<>>) =>
            /\ IsText(result[i])
            /\ result[i].content[1] =
                  "No logs found for address " \o args[i].address.v
                  \o " from block " \o args[i].fromBlock.v
                  \o " to " \o args[i].toBlock.v \o "."
            /\ ~StartsWith(result[i].content[1], "Failed to fetch logs")

C12_Witness ==
    \E i \in Invocations :
        /\ Succeeded(i)
        /\ tool[i] = "get-logs"
        /\ NodeResult(i) = Arr(<<>>)
        /\ args[i].fromBlock = Str("0x1")
        /\ result[i] = Text("No logs found for address " \o GoodAddress.v
                            \o " from block 0x1 to latest.")

ArrayTools == {"get-logs", "get-filter-changes", "get-filter-logs"}

\* the content block the handler of t builds from element x at position idx
ElementBlock(t, x, idx) ==
    CASE t = "get-logs" -> LogBlock(x, idx)
      [] t = "get-filter-changes" ->
            "Change " \o IntStr(idx) \o ":\n" \o Stringify(x, "")
      [] t = "get-filter-logs" ->
            "Log " \o IntStr(idx) \o ":\n" \o Stringify(x, "")

\* C13: for get-logs, get-filter-changes and get-filter-logs, a success reply
\* whose result is a non-empty array of n elements yields exactly n content
\* blocks, in the array's order, block i being rendered from element i alone.
C13_OneBlockPerElement ==
    \A i \in Invocations :
        /\ Succeeded(i)
        /\ tool[i] \in ArrayTools
        /\ NodeResult(i).t = "arr"
        /\ NodeResult(i).v # <<>>
        => /\ result[i].kind = "content"
           /\ Len(result[i].content) = Len(NodeResult(i).v)
           /\ \A k \in 1..Len(NodeResult(i).v) :
                 result[i].content[k] =
                    ElementBlock(tool[i], NodeResult(i).v[k], k)

InvalidSolutionText == "Failed to submit PoW solution. Invalid solution."

BlockSelectorKeys == {"blockNumber", "block", "fromBlock", "toBlock", "newestBlock"}

\* a hex quantity or one of the block tags
BlockSelector(j) ==
    /\ j.t = "str"
    /\ \/ HexPlus(j.v)
       \/ j.v \in {"latest", "earliest", "pending", "safe", "finalized"}

\* the caller gave a block selector that is neither
BadBlockSelector(i) ==
    \E k \in BlockSelectorKeys \cap DOMAIN args[i] :
        args[i][k].t # "undef" /\ ~BlockSelector(args[i][k])

\* C15: for every tool with a block-selector argument, a value that is
\* neither a hex quantity nor one of the tags latest, earliest, pending, safe,
\* finalized is rejected by validation, and no request is sent to the node.
C15_BlockSelectorValidated ==
    \A i \in Invocations :
        pc[i] # "idle" /\ BadBlockSelector(i) =>
            ArgumentsRejected(i) /\ sent[i] = <<>>

\* the host refused the arguments: the handler never ran
Rejected(i) == Finished(i) /\ result[i] = ValidationError /\ sent[i] = <<>>
Accepted(i) == pc[i] # "idle" /\ result[i] # ValidationError

HashTools == TransactionHashTools \cup {"get-transaction-by-block"}
HashArgument(i) ==
    IF tool[i] = "get-transaction-by-block"
    THEN args[i].blockHash ELSE args[i].transactionHash
\* the arguments next to the hash pass their own validators
OtherArgumentsValid(i) ==
    tool[i] = "get-transaction-by-block" => zHexQuantity(args[i].transactionIndex)

\* 0x followed by exactly 64 hex digits
IsHash(j) ==
    /\ j.t = "str"
    /\ Len(j.v) = 66
    /\ SubSeq(j.v, 1, 2) = "0x"
    /\ \A k \in 3..66 : CharAt(j.v, k) \in HexDigits

\* starts with 0x and is 42 characters long
AddressShaped(j) == j.t = "str" /\ Len(j.v) = 42 /\ SubSeq(j.v, 1, 2) = "0x"

\* the address arguments of an invocation: address at the top, to and from
\* inside a call object (call-contract's from only when given)
AddressArguments(i) ==
    LET a == args[i]
        call == IF tool[i] = "call-contract" THEN a.callData
                ELSE IF tool[i] = "estimate-gas" THEN a.transaction
                ELSE Undef
    IN  (IF "address" \in DOMAIN a THEN {a.address} ELSE {})
        \cup (IF tool[i] \in {"call-contract", "estimate-gas"}
              THEN {Get(call, "to")} ELSE {})
        \cup (IF tool[i] = "estimate-gas" THEN {Get(call, "from")} ELSE {})
        \cup {x \in {Get(call, "from")} : x.t # "undef"}

\* C16: a transaction-hash or block-hash argument is accepted if and only if
\* it is 0x followed by exactly 64 hex digits, and an address argument is
\* accepted only if it starts with 0x and is 42 characters long; every other
\* value is a validation failure, and no request is sent.
C16_FixedLengthHex ==
    \A i \in Invocations :
        pc[i] # "idle" =>
            /\ Accepted(i) \/ Rejected(i)
            /\ tool[i] \in HashTools =>
                  /\ Accepted(i) => IsHash(HashArgument(i))
                  /\ IsHash(HashArgument(i)) /\ OtherArgumentsValid(i) =>
                        Accepted(i)
            /\ Accepted(i) => \A x \in AddressArguments(i) : AddressShaped(x)

C16_Witness ==
    \E i \in Invocations :
        /\ tool[i] = "get-transaction"
        /\ args[i].transactionHash = NonHexHash
        /\ Rejected(i)

\* an integer between 1 and 1024
BlockCountInRange(j) ==
    j.t = "num" /\ IsInteger(j) /\ j.v \in MinBlockCount..MaxBlockCount

\* C17: get-fee-history refuses a blockCount that is not an integer in
\* 1..1024 and forwards nothing; every eth_feeHistory request that is sent
\* carries a blockCount within 1..1024.
C17_BlockCountRange ==
    \A i \in Invocations :
        pc[i] # "idle" /\ tool[i] = "get-fee-history" =>
            /\ ~BlockCountInRange(args[i].blockCount) => Rejected(i)
            /\ \A k \in 1..Len(sent[i]) :
                  /\ sent[i][k].body.method = "eth_feeHistory"
                  /\ BlockCountInRange(sent[i][k].body.params[1])

FilterCreationTools ==
    {"get-new-filter", "get-new-block-filter", "get-new-pending-tran-filter"}

\* the JSON-RPC method each filter-creation tool stands for
FilterCreationMethod(t) ==
    CASE t = "get-new-filter" -> "eth_newFilter"
      [] t = "get-new-block-filter" -> "eth_newBlockFilter"
      [] t = "get-new-pending-tran-filter" -> "eth_newPendingTransactionFilter"

\* C18: each tool sends the JSON-RPC method it stands for: the new-block
\* filter tool sends eth_newBlockFilter, the new-pending-transaction filter
\* tool sends eth_newPendingTransactionFilter, and the requests of two
\* different filter-creation tools name different methods.
C18_OneMethodPerTool ==
    \A i \in Invocations :
        tool[i] \in FilterCreationTools =>
            \A k \in 1..Len(sent[i]) :
                /\ sent[i][k].body.method = FilterCreationMethod(tool[i])
                /\ \A t \in FilterCreationTools \ {tool[i]} :
                      sent[i][k].body.method # RpcMethod(t)

ZeroQuantity == Str("0x0")
TransactionTools ==
    {"get-transaction", "get-transaction-by-block"} \cup BlockNumberIndexTools
ZeroPlaceholders == {"N/A", "Pending", "NaN", "Value: 0 ETH\n", "invalid"}

\* the text has a line that ends with label and value
HasLine(text, label, value) == Contains(text, label \o value \o "\n")

\* C19: the hex quantity "0x0" decodes to the integer 0 in every quantity
\* field (balance, block number, gas price, priority fee, gas estimate, chain
\* id, peer count, hashrate, and a transaction's block number, value, gas, gas
\* price and nonce) and is rendered as the number 0, never as one of the placeholders
\* "N/A", "Pending", the "0 ETH" fallback, or an invalid-response message.
C19_ZeroQuantity ==
    \A i \in Invocations :
        Succeeded(i) =>
            /\ NodeResult(i) = ZeroQuantity =>
                 CASE tool[i] = "get-balance" ->
                        result[i] = Text("ETH balance for " \o args[i].address.v
                                         \o " at block \"" \o BlockOf(args[i])
                                         \o "\":0 ETH (0 wei)")
                   [] tool[i] = "get-block-number" ->
                        result[i] = Text("Latest block number: 0 (hex: 0x0)")
                   [] tool[i] = "get-gas-price" ->
                        result[i] = Text("Latest gas price: 0 Gwei (0 wei)")
                   [] tool[i] = "get-max-priority-fee" ->
                        result[i] = Text("Max Priority Fee Per Gas: 0 Gwei (0 wei)")
                   [] tool[i] = "estimate-gas" ->
                        result[i] = Text("Gas estimate:"
                                         \o Indent14 \o "Hex: 0x0"
                                         \o Indent14 \o "Decimal: 0"
                                         \o Indent14
                                         \o "Recommended gas limit: 0 (+20% buffer)")
                   [] tool[i] = "get-chain-id" ->
                        result[i] = Text("Chain ID: 0 (hex: 0x0)")
                   [] tool[i] = "get-peer-count" ->
                        result[i] = Text("Peer Count: 0 (0x0 in hex)")
                   [] tool[i] = "get-hashrate" ->
                        /\ IsText(result[i])
                        /\ Contains(result[i].content[1], "Hashrate: 0 H/s")
                   [] OTHER -> TRUE
            /\ tool[i] \in TransactionTools /\ NodeResult(i) = ZeroTransaction =>
                 /\ IsText(result[i])
                 /\ \/ HasLine(result[i].content[1], "Block: ", "0")
                    \/ HasLine(result[i].content[1], "Block Number: ", "0")
                 /\ HasLine(result[i].content[1], "Value: ", "0 ETH ETH")
                 /\ \/ HasLine(result[i].content[1], "Gas: ", "0")
                    \/ HasLine(result[i].content[1], "Gas Limit: ", "0")
                 /\ HasLine(result[i].content[1], "Gas Price: ", "0 Gwei Gwei")
                 /\ HasLine(result[i].content[1], "Nonce: ", "0")
                 /\ \A p \in ZeroPlaceholders : ~Contains(result[i].content[1], p)

C19_Witness ==
    \E i \in Invocations :
        /\ Succeeded(i)
        /\ tool[i] = "get-transaction"
        /\ NodeResult(i) = ZeroTransaction
        /\ HasLine(result[i].content[1], "Block: ", "0")
        /\ HasLine(result[i].content[1], "Nonce: ", "0")

QuantityTools ==
    {"get-balance", "get-block-number", "get-gas-price", "get-max-priority-fee"}

\* a result that is missing, empty, or the bare prefix
ZeroLengthResults == {Undef, Str(""), Str("0x")}

\* C20: for get-balance, get-block-number, get-gas-price and
\* get-max-priority-fee, a success reply whose result is missing, the empty
\* string or the bare prefix "0x" decodes to the integer 0 and is rendered as
\* 0, and no error is raised.
C20_ZeroLengthIsZero ==
    \A i \in Invocations :
        /\ Succeeded(i)
        /\ tool[i] \in QuantityTools
        /\ NodeResult(i) \in ZeroLengthResults
        => /\ result[i] # Thrown
           /\ IsText(result[i])
           /\ CASE tool[i] = "get-balance" ->
                     result[i].content[1] =
                        "ETH balance for " \o args[i].address.v \o " at block \""
                        \o BlockOf(args[i]) \o "\":0 ETH (0 wei)"
                [] tool[i] = "get-block-number" ->
                     StartsWith(result[i].content[1], "Latest block number: 0 (")
                [] tool[i] = "get-gas-price" ->
                     result[i].content[1] = "Latest gas price: 0 Gwei (0 wei)"
                [] tool[i] = "get-max-priority-fee" ->
                     result[i].content[1] =
                        "Max Priority Fee Per Gas: 0 Gwei (0 wei)"

\* ds / 10^shift in exact arithmetic, rounded half up to at most frac fraction
\* digits: integer part grouped, trailing zeros of the fraction dropped
ExactScaledText(ds, shift, frac) ==
    LET drop == shift - frac
        kept == IF Len(ds) > drop THEN SubSeq(ds, drop + 1, Len(ds)) ELSE <<>>
        up == Len(ds) >= drop /\ ds[drop] >= 5
        r == StripZeros(IF up THEN AddOne(kept) ELSE kept)
        ip == IF Len(r) > frac THEN SubSeq(r, frac + 1, Len(r)) ELSE <<>>
        fp == [i \in 1..frac |-> IF i <= Len(r) THEN r[i] ELSE 0]
        fs == StripTrailingZeros(SliceFrom(BigToString(fp \o <<1>>), 1))
    IN  BigToLocaleString(ip) \o (IF fs = "" THEN "" ELSE "." \o fs)

\* the node answered get-balance with a hex quantity
BalanceReturned(i) ==
    /\ Succeeded(i)
    /\ tool[i] = "get-balance"
    /\ NodeResult(i).t = "str"
    /\ HexPlus(NodeResult(i).v)

\* C21: for every valid address and every hex quantity the node returns, of
\* any width, the balance tool shows the exact decimal expansion of the
\* quantity as the wei figure, and as the ETH figure the quantity divided by
\* 10^18 and rounded to at most 8 fraction digits.
C21_BalanceExact ==
    \A i \in Invocations :
        BalanceReturned(i) =>
            LET wei == StripZeros(HexDigitsToBig(SliceFrom(NodeResult(i).v, 2)))
            IN  result[i] =
                   Text("ETH balance for " \o args[i].address.v \o " at block \""
                        \o BlockOf(args[i]) \o "\":"
                        \o ExactScaledText(wei, WeiPerEthDigits, EthFractionDigits)
                        \o " ETH (" \o Group3(BigToString(wei)) \o " wei)")

\* the hex text j.v when j is a hex quantity, as a set of at most one
HexQuantity(j) == IF j.t = "str" /\ HexPlus(j.v) THEN {j.v} ELSE {}

\* the hex quantities in the array j
HexQuantitiesIn(j) ==
    IF j.t = "arr" THEN UNION {HexQuantity(j.v[k]) : k \in 1..Len(j.v)} ELSE {}

\* the quantities of the node's reply that the tool's text shows as an ETH
\* or Gwei figure
ShownApproximately(i) ==
    LET r == NodeResult(i)
    IN  CASE tool[i] \in {"get-balance", "get-gas-price", "get-max-priority-fee"}
                -> HexQuantity(r)
          [] tool[i] = "get-proof" -> HexQuantity(Get(r, "balance"))
          [] tool[i] = "get-transaction"
                -> HexQuantity(Get(r, "value")) \cup HexQuantity(Get(r, "gasPrice"))
          [] tool[i] = "get-fee-history"
                -> HexQuantitiesIn(Get(r, "baseFeePerGas"))
                     \cup (IF Get(r, "reward").t = "arr"
                           THEN UNION {HexQuantitiesIn(Get(r, "reward").v[k]) :
                                          k \in 1..Len(Get(r, "reward").v)}
                           ELSE {})
          [] OTHER -> {}

\* the text shows the quantity hex exactly: its hex, or every decimal digit
\* of it (grouped or not)
ShownExactly(text, hex) ==
    LET n == StripZeros(HexDigitsToBig(SliceFrom(hex, 2)))
    IN  \/ Contains(text, hex)
        \/ Contains(text, BigToString(n))
        \/ Contains(text, BigToLocaleString(n))

\* C22: wherever a tool's output shows the approximate ETH or Gwei figure of
\* a quantity (balance, gas price, priority fee, proof balance, transaction
\* value and gas price, fee-history base fees and rewards), the same output
\* also shows the exact integer or the original hex of that quantity.
C22_ExactAlongside ==
    \A i \in Invocations :
        Succeeded(i) /\ IsText(result[i]) =>
            \A hex \in ShownApproximately(i) :
                ShownExactly(result[i].content[1], hex)

Placeholders == {"N/A", "Pending", "Contract Creation"}

\* the optional fields of a transaction or receipt that tool t prints, each
\* with the label of its line
OptionalFields(t) ==
    CASE t = "get-transaction"
            -> {<<"blockNumber", "Block: ">>, <<"to", "To: ">>,
                <<"gasPrice", "Gas Price: ">>}
      [] t \in {"get-transaction-by-block"} \cup BlockNumberIndexTools
            -> {<<"blockNumber", "Block Number: ">>,
                <<"blockHash", "Block Hash: ">>, <<"to", "To: ">>,
                <<"gasPrice", "Gas Price: ">>}
      [] t = "get-transaction-receipt"
            -> {<<"blockNumber", "Block Number: ">>,
                <<"blockHash", "Block Hash: ">>,
                <<"contractAddress", "Contract Address: ">>}
      [] OTHER -> {}

\* C23: for every transaction-lookup and receipt tool, an optional field
\* that the node did not populate (block number, block hash, to, gas price,
\* contract address) is rendered as one of the placeholders "N/A", "Pending"
\* and "Contract Creation" on the field's labelled line.
C23_PlaceholderForAbsent ==
    \A i \in Invocations :
        Succeeded(i) /\ IsText(result[i]) /\ NodeResult(i).t = "obj" =>
            \A f \in OptionalFields(tool[i]) :
                Nullish(Get(NodeResult(i), f[1])) =>
                    \E p \in Placeholders :
                        Contains(result[i].content[1], f[2] \o p)

\* a call of one of the three filter tools with a non-empty filter ID
FilterIdCall(i) ==
    /\ tool[i] \in FilterIdTools
    /\ pc[i] # "idle"
    /\ args[i].filterId.t = "str"
    /\ args[i].filterId.v # ""

\* C24: the client keeps no filter state: every call of get-filter-changes,
\* get-filter-logs and uninstall-filter with a non-empty filterId is accepted
\* and sends one request whose only parameter is that filterId, unchanged;
\* the client never answers for the node, so an unknown or expired ID is
\* reported only after the node's reply.
C24_FilterIdPassedThrough ==
    \A i \in Invocations :
        FilterIdCall(i) =>
            /\ result[i] # ValidationError
            /\ pc[i] = "handler" => sent[i] = <<>>
            /\ pc[i] \in {"awaiting", "resumed", "done"} =>
                  /\ Len(sent[i]) = 1
                  /\ sent[i][1].body.method = RpcMethod(tool[i])
                  /\ sent[i][1].body.params = <<args[i].filterId>>
            /\ Finished(i) => reply[i] # None

\* a filter tool has finished with the node's error for the ID 0xabc
C24_Witness ==
    \E i \in Invocations :
        /\ FilterIdCall(i)
        /\ args[i].filterId = Str("0xabc")
        /\ ErrorWithMessage(i)
        /\ sent[i][1].body.params = <<Str("0xabc")>>
        /\ IsText(result[i])

\* what the invocation in slot i returns when it runs alone with the same
\* arguments and the same reply of the node
ResultAlone(i) ==
    IF ~SchemaOk(tool[i], args[i]) THEN ValidationError
    ELSE IF ReturnsBeforeRequest(tool[i], args[i]) THEN Text(InvalidHexText)
    ELSE IF Failed(tool[i], makeEthRpcRequest(reply[i]))
    THEN FailureResult(tool[i], args[i], makeEthRpcRequest(reply[i]))
    ELSE SuccessResult(tool[i], args[i], makeEthRpcRequest(reply[i]))

\* C25: concurrent invocations are independent: under every interleaving of
\* their request and reply steps each finished invocation has the result it
\* produces alone with the same arguments and the same reply, and every
\* request goes to the base URL and carries the user agent fixed at startup.
C25_InvocationsIndependent ==
    \A i \in Invocations :
        /\ \A k \in 1..Len(sent[i]) :
              /\ sent[i][k].url = API_BASE_URL
              /\ sent[i][k].userAgent = USER_AGENT
              /\ sent[i][k].body.params = Params(tool[i], args[i])
        /\ Finished(i) => result[i] = ResultAlone(i)

\* two invocations of the same tool with the same arguments have finished on
\* different replies, with different results
C25_Witness ==
    \E i, j \in Invocations :
        /\ i # j
        /\ Finished(i) /\ Finished(j)
        /\ tool[i] = tool[j] /\ args[i] = args[j]
        /\ reply[i] # None /\ reply[j] # None /\ reply[i] # reply[j]
        /\ result[i] # result[j]

\* the result of a decoded eth_call without its 0x prefix, as the decoder
\* takes it
CleanHexOf(i) ==
    LET hexData == Get(reply[i].body, "result").v
    IN  IF StartsWith(hexData, "0x") THEN SliceFrom(hexData, 2) ELSE hexData

\* the decoder's address test on a word: its hex characters 24 to 47 are zero
AddressTest(word) == AllZero(SubSeq(word, 25, 48))

\* C26: the eth_call decoder tries address, uint256 and bool in that order:
\* a result of 64 hex characters is rendered 'Address: 0x' and its last 40
\* characters when the address test succeeds, and 'Uint256: ' and its exact
\* decimal otherwise, with that one label only; 'Bool:' is produced for no
\* result at all.
C26_AddressThenUint256 ==
    \A i \in Invocations :
        CallDecoded(i) /\ IsText(result[i]) =>
            /\ ~Contains(result[i].content[1], "Bool:")
            /\ Len(CleanHexOf(i)) = 64 /\ AllHex(CleanHexOf(i)) =>
                  result[i] =
                     Text("Call result:" \o Indent14 \o "Raw hex: "
                          \o Get(reply[i].body, "result").v \o Indent14
                          \o "Decoded: "
                          \o (IF AddressTest(CleanHexOf(i))
                              THEN "Address: 0x" \o SubSeq(CleanHexOf(i), 25, 64)
                              ELSE "Uint256: " \o BigToString(StripZeros(
                                       HexDigitsToBig(CleanHexOf(i))))))

\* the word 1 has been decoded, as an integer
C26_Witness ==
    \E i \in Invocations :
        /\ WordResult(i)
        /\ WordOf(i) = Zero24 \o "000000000000000000000001" \o "0000000000000001"
        /\ Contains(result[i].content[1],
                    "Decoded: Uint256: 18446744073709551617")

\* the first n characters of s, or all of s when it has fewer
FirstChars(s, n) == IF Len(s) > n THEN SubSeq(s, 1, n) ELSE s

\* C27: in the eth_call decoder, every result whose length without the 0x
\* prefix is neither 0 nor 64 is rendered as 'Bytes: 0x', at most its first
\* 128 characters, and the marker '...'; no character beyond the 128th
\* appears in the decoded line.
C27_BytesPreview ==
    \A i \in Invocations :
        CallDecoded(i) /\ Len(CleanHexOf(i)) \notin {0, 64} =>
            result[i] =
               Text("Call result:" \o Indent14 \o "Raw hex: "
                    \o Get(reply[i].body, "result").v \o Indent14
                    \o "Decoded: Bytes: 0x" \o FirstChars(CleanHexOf(i), 128)
                    \o "...")

\* a result of 150 hex characters has been decoded: the line ends after the
\* 128th
C27_Witness ==
    \E i \in Invocations :
        /\ CallDecoded(i)
        /\ Get(reply[i].body, "result") = LongBytes
        /\ Len(CleanHexOf(i)) = 150
        /\ IsText(result[i])
        /\ Contains(result[i].content[1],
                    "Decoded: Bytes: 0x" \o SubSeq(CleanHexOf(i), 1, 128) \o "...")
        /\ ~Contains(result[i].content[1],
                     "Decoded: Bytes: 0x" \o SubSeq(CleanHexOf(i), 1, 129))

\* the node answered HTTP 200 with a JSON body that has no error member
RepliedWithoutError(i) ==
    /\ Finished(i)
    /\ JsonReply(reply[i])
    /\ reply[i].status = 200
    /\ reply[i].body.t \in {"obj", "null"}
    /\ Get(reply[i].body, "error") = Undef

\* C28: for every tool and every HTTP 200 JSON reply without an error
\* member, whatever its result is (missing, null, not hex, without the
\* expected arrays or fields), the handler returns a text result and does not
\* throw out of the invocation.
C28_NoThrowOnAnyResult ==
    \A i \in Invocations :
        RepliedWithoutError(i) => result[i].kind = "content"

\* get-transaction-receipt has rendered a receipt whose status is s
ReceiptRendered(i, s) ==
    /\ Succeeded(i)
    /\ tool[i] = "get-transaction-receipt"
    /\ Get(NodeResult(i), "status") = Str(s)
    /\ IsText(result[i])

\* C29: get-transaction-receipt renders the line Status: Failed for a
\* receipt whose status is "0x0" and Status: Success for "0x1": the line
\* follows the decoded value of the field, not its mere presence.
C29_StatusDecoded ==
    \A i \in Invocations :
        /\ ReceiptRendered(i, "0x0") =>
              HasLine(result[i].content[1], "Status: ", "Failed")
        /\ ReceiptRendered(i, "0x1") =>
              HasLine(result[i].content[1], "Status: ", "Success")

\* s is 0x followed by zero or more hex digits
ZeroXThenHexDigits(s) ==
    /\ Len(s) >= 2
    /\ SubSeq(s, 1, 2) = "0x"
    /\ \A k \in 3..Len(s) :
          SubSeq(s, k, k) \in
             {"0", "1", "2", "3", "4", "5", "6", "7", "8", "9", "a", "b", "c",
              "d", "e", "f", "A", "B", "C", "D", "E", "F"}

\* a finished call of get-sha3-hash
Sha3Finished(i) == Finished(i) /\ tool[i] = "get-sha3-hash"

\* the data argument is a string and matches
Sha3DataMatches(i) ==
    args[i].data.t = "str" /\ ZeroXThenHexDigits(args[i].data.v)

\* the one request of a call that matches: web3_sha3 with the data unchanged
Sha3RequestSent(i) ==
    /\ Len(sent[i]) = 1
    /\ sent[i][1].body.method = "web3_sha3"
    /\ sent[i][1].body.params = <<args[i].data>>

\* C30 as stated: get-sha3-hash sends a web3_sha3 request if and only if
\* the data argument is 0x followed by zero or more hex digits; for any other
\* data it returns the 'Invalid hexadecimal input' text without a request.
C30_AsStated ==
    \A i \in Invocations :
        Sha3Finished(i) =>
            IF Sha3DataMatches(i) THEN Sha3RequestSent(i)
            ELSE sent[i] = <<>> /\ result[i] = Text(InvalidHexText)

\* C30: get-sha3-hash sends a web3_sha3 request if and only if the data
\* argument is 0x followed by zero or more hex digits; for any other
\* non-empty string it returns the 'Invalid hexadecimal input' text without
\* a request, and data that is empty or no string fails the schema, without
\* a request too.
C30_RequestIffHex ==
    \A i \in Invocations :
        Sha3Finished(i) =>
            IF Sha3DataMatches(i) THEN Sha3RequestSent(i)
            ELSE /\ sent[i] = <<>>
                 /\ result[i] =
                       IF args[i].data.t = "str" /\ args[i].data.v # ""
                       THEN Text(InvalidHexText) ELSE ValidationError

\* the data 0x, no digit at all, has been sent to the node
C30_Witness ==
    \E i \in Invocations :
        /\ Sha3Finished(i)
        /\ args[i].data = Str("0x")
        /\ Sha3RequestSent(i)
        /\ reply[i] # None

====
